---- MODULE Spec2Model ----
(***************************************************************************)
(* Catalog browsing application: the JSON-file-backed items API            *)
(* (backend/src/routes/items.js), the stats endpoint with its              *)
(* modification-time cache (backend/src/routes/stats.js) and the client    *)
(* fetch / cancellation layer (frontend/src/state/DataContext.js,          *)
(* hooks/useSafeAsync.js, pages/ItemDetail.js).                            *)
(***************************************************************************)
EXTENDS Integers, Sequences, FiniteSets, TLC

VARIABLES
  itemsFile,   \* content of the items router's DATA_PATH: a sequence of items
  clock,       \* Date.now()
  posts,       \* POST /api/items requests: id -> [pc, body, data, item, ...]
  resp,        \* the HTTP response of the GET request handled last
  nWrites,     \* history: number of completed writes of itemsFile
  staleWrite,  \* history: some write was based on a read older than the file
  statsFile,   \* content of the stats router's DATA_PATH: [ok, items]
  mtime,       \* modification time of that file
  statsCache,  \* stats.js: let statsCache
  lastModified,\* stats.js: let lastModified
  sreqs,       \* GET /api/stats requests: id -> [pc, mtime, status, body, ...]
  crashed,     \* the server process died of an uncaught exception
  lastAnswered,\* history: the stats request answered last, 0 when none
  version,     \* history: number of modifications of statsFile
  views,       \* the page instances mounted so far: [kind, isMounted, controller]
  creqs,       \* the client's requests: [op, view, pc, signal, aborted, ...]
  abortControllerRef, \* DataContext.js: the request whose controller it holds, 0 for null
  items,       \* DataContext.js state, as the requests whose data it shows
  pagination,  \* DataContext.js state: [hasNextPage, of]
  filters,     \* DataContext.js state, as the request that set it
  loading,     \* DataContext.js state
  categories,  \* DataContext.js state, as the request that set it
  detailItem,  \* ItemDetail's item, as the request that set it
  navigations, \* number of navigate('/') calls
  lateResult,  \* history: a result arrived for a page that was torn down
  searchForm,  \* Items.js state: [q, category]
  debouncedSearch, \* Items.js state
  viewMode,    \* Items.js state
  timer,       \* the pending timer of the debounce effect: [value, left]
  sinceChange, \* history: time since searchForm.q was set, up to Delay
  burst,       \* history: changes of searchForm.q the timer set last stands for
  lastParams,  \* history: the params the search effect passed last
  logged       \* the step taken last wrote to console.error

storeVars == <<itemsFile, clock, posts, resp, nWrites, staleWrite>>

statsVars ==
  <<statsFile, mtime, statsCache, lastModified, sreqs, crashed, lastAnswered, version>>

shown == <<items, pagination, filters, loading, categories, detailItem, navigations>>

formVars ==
  <<searchForm, debouncedSearch, viewMode, timer, sinceChange, burst, lastParams>>

clientVars ==
  <<views, creqs, abortControllerRef, shown, lateResult, formVars, logged>>

vars == <<storeVars, statsVars, clientVars>>

(***************************************************************************)
(* Bounds of the model.                                                    *)
(***************************************************************************)
MaxLen == 3      \* longest collection the query specification starts from
MaxPosts == 2    \* POST requests of one behaviour
MaxClock == 2    \* clock ticks of one behaviour
MaxStats == 3    \* GET /api/stats requests of one behaviour
MaxViews == 2    \* page instances mounted in one behaviour
MaxRequests == 6 \* requests the client issues in one behaviour
MaxMods == 1     \* modifications of the stats file in one behaviour

(***************************************************************************)
(* JavaScript values.  Every value is a record of one shape, so that any   *)
(* two values can be compared: t is the type tag, s the characters of a    *)
(* string, n the integer of a number (or the sign of an infinity).         *)
(***************************************************************************)
Str(s) == [t |-> "str", s |-> s, n |-> 0]
Num(n) == [t |-> "num", s |-> <<>>, n |-> n]
Null == [t |-> "null", s |-> <<>>, n |-> 0]
Undef == [t |-> "undef", s |-> <<>>, n |-> 0]
NaN == [t |-> "nan", s |-> <<>>, n |-> 0]
Inf(sign) == [t |-> "inf", s |-> <<>>, n |-> sign]

IsStr(v) == v.t = "str"
IsNum(v) == v.t = "num"

Min(a, b) == IF a < b THEN a ELSE b
Max(a, b) == IF a > b THEN a ELSE b

\* UTF-16 code unit of the characters the model uses.
Code(c) ==
  CASE c = " " -> 32 [] c = "-" -> 45
    [] c = "0" -> 48 [] c = "1" -> 49 [] c = "2" -> 50 [] c = "3" -> 51
    [] c = "4" -> 52 [] c = "5" -> 53 [] c = "6" -> 54 [] c = "7" -> 55
    [] c = "8" -> 56 [] c = "9" -> 57
    [] c = "A" -> 65 [] c = "B" -> 66 [] c = "C" -> 67 [] c = "N" -> 78
    [] c = "a" -> 97 [] c = "b" -> 98 [] c = "c" -> 99 [] c = "l" -> 108
    [] c = "n" -> 110 [] c = "u" -> 117 [] c = "x" -> 120

IsDigit(c) == Code(c) >= 48 /\ Code(c) <= 57

\* String.prototype.toLowerCase, character by character.
LowerChar(c) ==
  CASE c = "A" -> "a" [] c = "B" -> "b" [] c = "C" -> "c" [] OTHER -> c

toLowerCase(s) == [i \in 1..Len(s) |-> LowerChar(s[i])]

\* String.prototype.trim: drop the leading and the trailing blanks.
RECURSIVE trimStart(_)
trimStart(s) ==
  IF s # <<>> /\ Head(s) = " " THEN trimStart(Tail(s)) ELSE s

RECURSIVE trimEnd(_)
trimEnd(s) ==
  IF s # <<>> /\ s[Len(s)] = " " THEN trimEnd(SubSeq(s, 1, Len(s) - 1)) ELSE s

trim(s) == trimEnd(trimStart(s))

\* String.prototype.includes: t occurs in s as a contiguous substring.
includes(s, t) ==
  \E i \in 0..(Len(s) - Len(t)) : SubSeq(s, i + 1, i + Len(t)) = t

\* s < t on strings: lexicographic on code units.
RECURSIVE StrLess(_, _)
StrLess(s, t) ==
  IF t = <<>> THEN FALSE
  ELSE IF s = <<>> THEN TRUE
  ELSE IF Code(Head(s)) # Code(Head(t)) THEN Code(Head(s)) < Code(Head(t))
  ELSE StrLess(Tail(s), Tail(t))

\* The value of a run of decimal digits.
RECURSIVE DigitsValue(_, _)
DigitsValue(s, acc) ==
  IF s = <<>> \/ ~IsDigit(Head(s)) THEN acc
  ELSE DigitsValue(Tail(s), 10 * acc + (Code(Head(s)) - 48))

\* parseInt(v): leading blanks, an optional sign, then the longest prefix of
\* digits; NaN when there is no digit.  A number is converted to its decimal
\* string first, which parses back to the same integer.
parseInt(v) ==
  IF IsNum(v) THEN v
  ELSE IF ~IsStr(v) THEN NaN
  ELSE LET s == trimStart(v.s)
           neg == s # <<>> /\ Head(s) = "-"
           d == IF neg THEN Tail(s) ELSE s
       IN IF d = <<>> \/ ~IsDigit(Head(d)) THEN NaN
          ELSE Num(IF neg THEN 0 - DigitsValue(d, 0) ELSE DigitsValue(d, 0))

\* parseFloat on the strings of the model (no fraction, no exponent).
parseFloat(v) == parseInt(v)

\* ToNumber: null is 0, undefined is NaN, a string is the number it spells
\* (the blank string is 0) or NaN.
ToNumber(v) ==
  CASE v.t = "num" -> v
    [] v.t = "inf" -> v
    [] v.t = "null" -> Num(0)
    [] v.t = "str" ->
         LET s == trim(v.s)
             neg == s # <<>> /\ Head(s) = "-"
             d == IF neg THEN Tail(s) ELSE s
         IN IF s = <<>> THEN Num(0)
            ELSE IF d # <<>> /\ \A i \in 1..Len(d) : IsDigit(d[i])
              THEN Num(IF neg THEN 0 - DigitsValue(d, 0) ELSE DigitsValue(d, 0))
              ELSE NaN
    [] OTHER -> NaN

\* a < b on numbers, with infinities; false when either is NaN.
NumLess(a, b) ==
  IF a.t = "nan" \/ b.t = "nan" THEN FALSE
  ELSE IF a.t = "inf" THEN a.n < 0 /\ ~(b.t = "inf" /\ b.n < 0)
  ELSE IF b.t = "inf" THEN b.n > 0
  ELSE a.n < b.n

\* The relational operator a < b of JavaScript: two strings compare as
\* strings, anything else as numbers.
JsLess(a, b) ==
  IF IsStr(a) /\ IsStr(b) THEN StrLess(a.s, b.s)
  ELSE NumLess(ToNumber(a), ToNumber(b))

\* Truthiness of a query parameter or value.
Truthy(v) ==
  CASE v.t = "str" -> v.s # <<>>
    [] v.t = "num" -> v.n # 0
    [] v.t = "inf" -> TRUE
    [] OTHER -> FALSE

\* JSON.stringify of a number: NaN and the infinities are written as null.
JsonNum(v) == IF v.t \in {"nan", "inf"} THEN Null ELSE v

\* A destructuring default: the default replaces undefined only.
Default(v, d) == IF v = Undef THEN d ELSE v

\* item[key] for a key received as a string; undefined when the item has no
\* such field.
Get(item, key) ==
  CASE key.s = <<"i", "d">> -> item.id
    [] key.s = <<"n", "a", "m", "e">> -> item.name
    [] key.s = <<"c", "a", "t", "e", "g", "o", "r", "y">> -> item.category
    [] key.s = <<"p", "r", "i", "c", "e">> -> item.price
    [] OTHER -> Undef

\* a === b
StrictEquals(a, b) == a.t # "nan" /\ a = b

(***************************************************************************)
(* Number arithmetic of the handlers, with NaN and the infinities.         *)
(***************************************************************************)
NumSub(a, b) == IF IsNum(a) /\ IsNum(b) THEN Num(a.n - b.n) ELSE NaN
NumAdd(a, b) == IF IsNum(a) /\ IsNum(b) THEN Num(a.n + b.n) ELSE NaN
NumMul(a, b) == IF IsNum(a) /\ IsNum(b) THEN Num(a.n * b.n) ELSE NaN

\* Math.ceil(total / limitNum) for an integer total >= 0.
CeilDiv(total, limitNum) ==
  IF ~IsNum(limitNum) THEN NaN
  ELSE IF limitNum.n = 0 THEN (IF total = 0 THEN NaN ELSE Inf(1))
  ELSE IF limitNum.n > 0 THEN Num((total + limitNum.n - 1) \div limitNum.n)
  ELSE Num(0 - (total \div (0 - limitNum.n)))

\* (a faulty variant: a negative index is taken for 0)
SliceIndexNoNegative(v, len) ==
  LET k == IF IsNum(v) THEN v.n
           ELSE IF v.t = "inf" THEN (IF v.n > 0 THEN len ELSE 0 - len)
           ELSE 0
  IN IF k < 0 THEN 0 ELSE Min(k, len)

\* ToIntegerOrInfinity of a slice argument, then its clamping to 0..len: NaN
\* is 0 and a negative index counts from the end.
SliceIndex(v, len) ==
  LET k == IF IsNum(v) THEN v.n
           ELSE IF v.t = "inf" THEN (IF v.n > 0 THEN len ELSE 0 - len)
           ELSE 0
  IN IF k < 0 THEN Max(len + k, 0) ELSE Min(k, len)

\* (a faulty variant: the element at the end index is part of the slice)
sliceInclusive(s, start, end) ==
  LET from == SliceIndex(start, Len(s))
      to == SliceIndex(end, Len(s))
  IN IF from <= to THEN SubSeq(s, from + 1, Min(to + 1, Len(s))) ELSE <<>>

\* Array.prototype.slice(start, end).
slice(s, start, end) ==
  LET from == SliceIndex(start, Len(s))
      to == SliceIndex(end, Len(s))
  IN IF from < to THEN SubSeq(s, from + 1, to) ELSE <<>>

(***************************************************************************)
(* The sort of both list handlers: Array.prototype.sort with the handlers' *)
(* comparator.  The comparator throws a TypeError when a is a string and b *)
(* has no toLowerCase.  The sort is the one Node runs on arrays shorter    *)
(* than 64 elements: find the leading run, reverse it when it is strictly  *)
(* descending, then insert the other elements by binary search; it is      *)
(* stable.                                                                 *)
(***************************************************************************)
CompareThrows(a, b, sortBy) ==
  IsStr(Get(a, sortBy)) /\ ~IsStr(Get(b, sortBy))

Compare(a, b, sortBy, sortOrder) ==
  LET aRaw == Get(a, sortBy)
      bRaw == Get(b, sortBy)
      aVal == IF IsStr(aRaw) THEN Str(toLowerCase(aRaw.s)) ELSE aRaw
      bVal == IF IsStr(aRaw) THEN Str(toLowerCase(bRaw.s)) ELSE bRaw
  IN IF sortOrder = Str(<<"d", "e", "s", "c">>)
       THEN (IF JsLess(aVal, bVal) THEN 1 ELSE IF JsLess(bVal, aVal) THEN -1 ELSE 0)
       ELSE (IF JsLess(bVal, aVal) THEN 1 ELSE IF JsLess(aVal, bVal) THEN -1 ELSE 0)

Reverse(s) == [i \in 1..Len(s) |-> s[Len(s) + 1 - i]]

\* Length of the run that starts the array (the array has two elements at
\* least); 0 when a comparison throws.  idx is the next element to look at.
RECURSIVE RunLength(_, _, _, _, _)
RunLength(a, idx, isDescending, sortBy, sortOrder) ==
  IF idx > Len(a) THEN Len(a)
  ELSE IF CompareThrows(a[idx], a[idx - 1], sortBy) THEN 0
  ELSE LET order == Compare(a[idx], a[idx - 1], sortBy, sortOrder)
       IN IF (isDescending /\ order >= 0) \/ (~isDescending /\ order < 0)
            THEN idx - 1
            ELSE RunLength(a, idx + 1, isDescending, sortBy, sortOrder)

\* Binary search of the place of pivot in a[left+1 .. right]; -1 when a
\* comparison throws.
RECURSIVE InsertionPoint(_, _, _, _, _, _)
InsertionPoint(a, pivot, left, right, sortBy, sortOrder) ==
  IF left >= right THEN left
  ELSE LET mid == left + ((right - left) \div 2)
       IN IF CompareThrows(pivot, a[mid + 1], sortBy) THEN -1
          ELSE IF Compare(pivot, a[mid + 1], sortBy, sortOrder) < 0
            THEN InsertionPoint(a, pivot, left, mid, sortBy, sortOrder)
            ELSE InsertionPoint(a, pivot, mid + 1, right, sortBy, sortOrder)

\* Insert a[start+1], a[start+2], ... into the sorted prefix before them.
RECURSIVE BinaryInsertionSort(_, _, _, _)
BinaryInsertionSort(a, start, sortBy, sortOrder) ==
  IF start >= Len(a) THEN [threw |-> FALSE, arr |-> a]
  ELSE LET pivot == a[start + 1]
           pos == InsertionPoint(a, pivot, 0, start, sortBy, sortOrder)
       IN IF pos < 0 THEN [threw |-> TRUE, arr |-> <<>>]
          ELSE BinaryInsertionSort(
                 SubSeq(a, 1, pos) \o <<pivot>> \o SubSeq(a, pos + 1, start)
                   \o SubSeq(a, start + 2, Len(a)),
                 start + 1, sortBy, sortOrder)

\* filteredResults.sort((a, b) => ...): [threw, arr].
sort(a, sortBy, sortOrder) ==
  IF Len(a) < 2 THEN [threw |-> FALSE, arr |-> a]
  ELSE IF CompareThrows(a[2], a[1], sortBy) THEN [threw |-> TRUE, arr |-> <<>>]
  ELSE LET isDescending == Compare(a[2], a[1], sortBy, sortOrder) < 0
           run == RunLength(a, 3, isDescending, sortBy, sortOrder)
       IN IF run = 0 THEN [threw |-> TRUE, arr |-> <<>>]
          ELSE BinaryInsertionSort(
                 IF isDescending
                   THEN Reverse(SubSeq(a, 1, run)) \o SubSeq(a, run + 1, Len(a))
                   ELSE a,
                 run, sortBy, sortOrder)

(***************************************************************************)
(* HTTP responses.  Every response is a record of one shape; the fields a  *)
(* route does not send are blank.  query echoes the request, for the       *)
(* properties to speak about.                                              *)
(***************************************************************************)
NoPagination ==
  [currentPage |-> Undef, totalPages |-> Undef, totalItems |-> Undef,
   itemsPerPage |-> Undef, hasNextPage |-> FALSE, hasPrevPage |-> FALSE]

NoFilters ==
  [search |-> Undef, category |-> Undef, minPrice |-> Undef, maxPrice |-> Undef,
   sortBy |-> Undef, sortOrder |-> Undef]

NoQuery ==
  [limit |-> Undef, page |-> Undef, q |-> Undef, sortBy |-> Undef,
   sortOrder |-> Undef, category |-> Undef, minPrice |-> Undef,
   maxPrice |-> Undef, id |-> Undef]

NoResp ==
  [route |-> "none", status |-> 0, data |-> <<>>, pagination |-> NoPagination,
   filters |-> NoFilters, categories |-> <<>>, message |-> "", query |-> NoQuery]

\* (a faulty variant: the status of the error is sent whether it has one
\* or not)
errorHandlerNoDefault(route, status, message, query) ==
  [NoResp EXCEPT !.route = route, !.status = status,
                 !.message = message, !.query = query]

\* errorHandler: the status of the error, 500 when it has none, and the
\* body { message: err.message }.
errorHandler(route, status, message, query) ==
  [NoResp EXCEPT !.route = route,
                 !.status = IF status = 0 THEN 500 ELSE status,
                 !.message = message, !.query = query]

(***************************************************************************)
(* GET /api/items.                                                         *)
(***************************************************************************)
\* The text test of one item: item.name.toLowerCase().includes(searchTerm)
\* || item.category.toLowerCase().includes(searchTerm).  It throws when the
\* name is no string, or when the name does not match and the category is
\* no string.
MatchesName(item, searchTerm) ==
  IsStr(item.name) /\ includes(toLowerCase(item.name.s), searchTerm)

TextThrows(item, searchTerm) ==
  \/ ~IsStr(item.name)
  \/ ~MatchesName(item, searchTerm) /\ ~IsStr(item.category)

\* (a faulty variant: the category is not searched)
MatchesTextNameOnly(item, searchTerm) == MatchesName(item, searchTerm)

MatchesText(item, searchTerm) ==
  \/ MatchesName(item, searchTerm)
  \/ IsStr(item.category) /\ includes(toLowerCase(item.category.s), searchTerm)

\* (a faulty variant: the category need only contain the parameter)
MatchesCategoryWithin(item, category) ==
  IsStr(item.category)
    /\ includes(toLowerCase(item.category.s), trim(toLowerCase(category.s)))

\* item.category.toLowerCase() === category.toLowerCase().trim()
MatchesCategory(item, category) ==
  IsStr(item.category)
    /\ toLowerCase(item.category.s) = trim(toLowerCase(category.s))

Blank(v) == trim(v.s) = <<>>

\* (a faulty variant: hasNextPage with <= instead of <)
PaginationInclusive(pageNum, limitNum, totalItems) ==
  LET totalPages == CeilDiv(totalItems, limitNum)
  IN [currentPage |-> JsonNum(pageNum),
      totalPages |-> JsonNum(totalPages),
      totalItems |-> Num(totalItems),
      itemsPerPage |-> JsonNum(limitNum),
      hasNextPage |-> ~NumLess(ToNumber(totalPages), ToNumber(pageNum)),
      hasPrevPage |-> NumLess(Num(1), ToNumber(pageNum))]

\* pagination of both list handlers, as JSON writes it.
Pagination(pageNum, limitNum, totalItems) ==
  LET totalPages == CeilDiv(totalItems, limitNum)
  IN [currentPage |-> JsonNum(pageNum),
      totalPages |-> JsonNum(totalPages),
      totalItems |-> Num(totalItems),
      itemsPerPage |-> JsonNum(limitNum),
      hasNextPage |-> NumLess(ToNumber(pageNum), ToNumber(totalPages)),
      hasPrevPage |-> NumLess(Num(1), ToNumber(pageNum))]

\* (a faulty variant: the offset of a 0-based page)
PaginateZeroBased(sorted, pageNum, limitNum) ==
  LET offset == NumMul(pageNum, limitNum)
  IN slice(sorted, offset, NumAdd(offset, limitNum))

\* offset = (pageNum - 1) * limitNum; slice(offset, offset + limitNum)
Paginate(sorted, pageNum, limitNum) ==
  LET offset == NumMul(NumSub(pageNum, Num(1)), limitNum)
  IN slice(sorted, offset, NumAdd(offset, limitNum))

\* router.get('/'): the response to `query` when readData returned `data`.
ListItems(data, query) ==
  LET limit == Default(query.limit, Num(10))
      page == Default(query.page, Num(1))
      q == Default(query.q, Str(<<>>))
      sortBy == Default(query.sortBy, Str(<<"i", "d">>))
      sortOrder == Default(query.sortOrder, Str(<<"a", "s", "c">>))
      category == Default(query.category, Str(<<>>))
      limitNum == parseInt(limit)
      pageNum == parseInt(page)
      searchTerm == trim(toLowerCase(q.s))
      textThrows == ~Blank(q) /\ \E i \in 1..Len(data) : TextThrows(data[i], searchTerm)
      afterText == IF Blank(q) THEN data
                   ELSE SelectSeq(data, LAMBDA item : MatchesText(item, searchTerm))
      categoryThrows == ~Blank(category)
                          /\ \E i \in 1..Len(afterText) : ~IsStr(afterText[i].category)
      filteredResults == IF Blank(category) THEN afterText
                         ELSE SelectSeq(afterText, LAMBDA item : MatchesCategory(item, category))
      totalItems == Len(filteredResults)
      sorted == sort(filteredResults, sortBy, sortOrder)
  IN IF textThrows \/ categoryThrows \/ sorted.threw
       THEN errorHandler("list", 0, "TypeError", query)
       ELSE [NoResp EXCEPT
               !.route = "list", !.status = 200,
               !.data = Paginate(sorted.arr, pageNum, limitNum),
               !.pagination = Pagination(pageNum, limitNum, totalItems),
               !.filters = [NoFilters EXCEPT !.search = q, !.category = category,
                                             !.sortBy = sortBy, !.sortOrder = sortOrder],
               !.query = query]

(***************************************************************************)
(* GET /api/items/search.                                                  *)
(***************************************************************************)
\* (a faulty variant: an item priced at a bound is dropped)
SearchOneExclusive(item, q, category, minPrice, maxPrice) ==
  LET textOn == Truthy(q) /\ ~Blank(q)
      searchTerm == trim(toLowerCase(q.s))
      catOn == Truthy(category) /\ ~Blank(category)
  IN IF textOn /\ TextThrows(item, searchTerm) THEN "throw"
     ELSE IF textOn /\ ~MatchesText(item, searchTerm) THEN "drop"
     ELSE IF catOn /\ ~IsStr(item.category) THEN "throw"
     ELSE IF catOn /\ ~MatchesCategory(item, category) THEN "drop"
     ELSE IF Truthy(minPrice) /\ ~JsLess(parseFloat(minPrice), item.price) THEN "drop"
     ELSE IF Truthy(maxPrice) /\ ~JsLess(item.price, parseFloat(maxPrice)) THEN "drop"
     ELSE "keep"

\* One item of searchItems: "throw", "drop" or "keep".
SearchOne(item, q, category, minPrice, maxPrice) ==
  LET textOn == Truthy(q) /\ ~Blank(q)
      searchTerm == trim(toLowerCase(q.s))
      catOn == Truthy(category) /\ ~Blank(category)
  IN IF textOn /\ TextThrows(item, searchTerm) THEN "throw"
     ELSE IF textOn /\ ~MatchesText(item, searchTerm) THEN "drop"
     ELSE IF catOn /\ ~IsStr(item.category) THEN "throw"
     ELSE IF catOn /\ ~MatchesCategory(item, category) THEN "drop"
     ELSE IF Truthy(minPrice) /\ JsLess(item.price, parseFloat(minPrice)) THEN "drop"
     ELSE IF Truthy(maxPrice) /\ JsLess(parseFloat(maxPrice), item.price) THEN "drop"
     ELSE "keep"

\* (a faulty variant: the category filter is left out)
searchItemsNoCategory(list, q, category, minPrice, maxPrice) ==
  IF \E i \in 1..Len(list) : SearchOne(list[i], q, Str(<<>>), minPrice, maxPrice) = "throw"
    THEN [threw |-> TRUE, arr |-> <<>>]
    ELSE [threw |-> FALSE,
          arr |-> SelectSeq(list,
                    LAMBDA item : SearchOne(item, q, Str(<<>>), minPrice, maxPrice) = "keep")]

\* searchItems(items, filters): [threw, arr].
searchItems(list, q, category, minPrice, maxPrice) ==
  IF \E i \in 1..Len(list) : SearchOne(list[i], q, category, minPrice, maxPrice) = "throw"
    THEN [threw |-> TRUE, arr |-> <<>>]
    ELSE [threw |-> FALSE,
          arr |-> SelectSeq(list,
                    LAMBDA item : SearchOne(item, q, category, minPrice, maxPrice) = "keep")]

\* router.get('/search'): the response to `query` when readData returned `data`.
SearchRoute(data, query) ==
  LET q == Default(query.q, Str(<<>>))
      category == Default(query.category, Str(<<>>))
      minPrice == Default(query.minPrice, Str(<<>>))
      maxPrice == Default(query.maxPrice, Str(<<>>))
      limit == Default(query.limit, Num(10))
      page == Default(query.page, Num(1))
      sortBy == Default(query.sortBy, Str(<<"i", "d">>))
      sortOrder == Default(query.sortOrder, Str(<<"a", "s", "c">>))
      limitNum == parseInt(limit)
      pageNum == parseInt(page)
      found == searchItems(data, q, category, minPrice, maxPrice)
      filteredResults == found.arr
      totalItems == Len(filteredResults)
      sorted == sort(filteredResults, sortBy, sortOrder)
  IN IF found.threw \/ sorted.threw
       THEN errorHandler("search", 0, "TypeError", query)
       ELSE [NoResp EXCEPT
               !.route = "search", !.status = 200,
               !.data = Paginate(sorted.arr, pageNum, limitNum),
               !.pagination = Pagination(pageNum, limitNum, totalItems),
               !.filters = [search |-> q, category |-> category,
                            minPrice |-> minPrice, maxPrice |-> maxPrice,
                            sortBy |-> sortBy, sortOrder |-> sortOrder],
               !.query = query]

(***************************************************************************)
(* GET /api/items/categories and GET /api/items/:id.                       *)
(***************************************************************************)
\* [...new Set(values)]: the first occurrence of every value, in order.
RECURSIVE Distinct(_)
Distinct(s) ==
  IF s = <<>> THEN <<>>
  ELSE LET init == Distinct(SubSeq(s, 1, Len(s) - 1))
           last == s[Len(s)]
       IN IF \E i \in 1..Len(init) : init[i] = last THEN init ELSE Append(init, last)

\* The decimal digits of a natural number.
RECURSIVE Digits(_)
Digits(n) ==
  LET d == <<"0", "1", "2", "3", "4", "5", "6", "7", "8", "9">>
  IN IF n < 10 THEN <<d[n + 1]>> ELSE Append(Digits(n \div 10), d[(n % 10) + 1])

\* JsToString, the key of the default sort.
JsToString(v) ==
  CASE v.t = "str" -> v.s
    [] v.t = "null" -> <<"n", "u", "l", "l">>
    [] v.t = "num" -> IF v.n < 0 THEN <<"-">> \o Digits(0 - v.n) ELSE Digits(v.n)
    [] OTHER -> <<"N", "a", "N">>

\* Array.prototype.sort() without a comparator: undefined goes last, the
\* other values are ordered by their strings; stable.
RECURSIVE InsertByString(_, _)
InsertByString(sorted, v) ==
  IF sorted = <<>> THEN <<v>>
  ELSE LET last == sorted[Len(sorted)]
       IN IF v.t # "undef" /\ (last.t = "undef" \/ StrLess(JsToString(v), JsToString(last)))
            THEN Append(InsertByString(SubSeq(sorted, 1, Len(sorted) - 1), v), last)
            ELSE Append(sorted, v)

RECURSIVE DefaultSort(_)
DefaultSort(s) ==
  IF s = <<>> THEN <<>>
  ELSE InsertByString(DefaultSort(SubSeq(s, 1, Len(s) - 1)), s[Len(s)])

\* getCategories(), given what readData returned.
getCategories(data) ==
  DefaultSort(Distinct([i \in 1..Len(data) |-> data[i].category]))

\* router.get('/categories'); JSON writes an undefined element as null.
CategoriesRoute(data) ==
  LET found == getCategories(data)
  IN [NoResp EXCEPT
        !.route = "categories", !.status = 200,
        !.categories = [i \in 1..Len(found) |->
                          IF found[i] = Undef THEN Null ELSE found[i]]]

\* router.get('/:id'): data.find(i => i.id === parseInt(req.params.id)).
\* (a faulty variant: an id of 0 is taken for no id)
ItemRouteNoZero(data, query) ==
  LET wanted == parseInt(query.id)
      hits == SelectSeq(data, LAMBDA i : StrictEquals(i.id, wanted)
                                           /\ wanted # Num(0))
  IN IF hits = <<>>
       THEN errorHandler("item", 404, "Item not found", query)
       ELSE [NoResp EXCEPT !.route = "item", !.status = 200,
                           !.data = <<Head(hits)>>, !.query = query]

ItemRoute(data, query) ==
  LET wanted == parseInt(query.id)
      hits == SelectSeq(data, LAMBDA i : StrictEquals(i.id, wanted))
  IN IF hits = <<>>
       THEN errorHandler("item", 404, "Item not found", query)
       ELSE [NoResp EXCEPT !.route = "item", !.status = 200,
                           !.data = <<Head(hits)>>, !.query = query]

(***************************************************************************)
(* Inputs.                                                                 *)
(***************************************************************************)
Item(id, name, category, price) ==
  [id |-> Num(id), name |-> name, category |-> category, price |-> price]

\* The items the query specification builds its collections from: names that
\* differ in case only, a category that contains another, equal prices, and
\* the nulls that an unvalidated creation stores, and an item created from a
\* body without a price, which the file holds without that key.
Pool ==
  { Item(1, Str(<<"A", "b">>), Str(<<"C">>), Num(2)),
    Item(2, Str(<<"b">>), Str(<<"c", "a">>), Num(1)),
    Item(3, Str(<<"a", "B">>), Str(<<"c">>), Num(2)),
    Item(4, Null, Null, Null),
    Item(5, Str(<<"c">>), Str(<<"C">>), Undef) }

\* The sequences without repetition of at most n elements of S.
RECURSIVE SeqsUpTo(_, _)
SeqsUpTo(S, n) ==
  IF n = 0 THEN {<<>>}
  ELSE LET shorter == SeqsUpTo(S, n - 1)
       IN shorter \cup
          { Append(s, x) : s \in {u \in shorter : Len(u) = n - 1},
                           x \in S }

NoRepeat(s) == \A i, j \in 1..Len(s) : i # j => s[i] # s[j]

Collections == {s \in SeqsUpTo(Pool, MaxLen) : NoRepeat(s)}

Limits ==
  {Undef, Str(<<"1">>), Str(<<"2">>), Str(<<"0">>), Str(<<"-", "1">>),
   Str(<<"-", "2">>), Str(<<"x">>)}
Pages == {Undef, Str(<<"2">>), Str(<<"3">>), Str(<<"x">>)}
Texts == {Undef, Str(<<" ">>), Str(<<"a", "B", " ">>), Str(<<"c", "a">>)}
CategoryParams == {Undef, Str(<<"C", " ">>)}
SortBys == {Undef, Str(<<"n", "a", "m", "e">>), Str(<<"p", "r", "i", "c", "e">>)}
SortOrders == {Undef, Str(<<"d", "e", "s", "c">>)}
MinPrices == {Undef, Str(<<"2">>), Str(<<"x">>)}
MaxPrices == {Undef, Str(<<"1">>)}
Ids == {Str(Digits(n)) : n \in 0..(MaxClock + 1)} \cup {Str(<<"x">>)}

ListQueries ==
  { [NoQuery EXCEPT !.limit = l, !.page = p, !.q = q, !.category = c,
                    !.sortBy = sb, !.sortOrder = so] :
      l \in Limits, p \in Pages, q \in Texts, c \in CategoryParams,
      sb \in SortBys, so \in SortOrders }

SearchQueries ==
  { [query EXCEPT !.minPrice = lo, !.maxPrice = hi] :
      query \in ListQueries, lo \in MinPrices, hi \in MaxPrices }

(***************************************************************************)
(* The GET handlers as actions.  Each reads the whole file once and answers *)
(* from what it read; a failed or unparsable read goes to the error        *)
(* handler.  A response is observed before the next GET is handled.        *)
(***************************************************************************)
\* GET /api/items with one of the given queries: readData throws (the file
\* cannot be read or does not parse) and the catch block hands the error to
\* the error handler, or the route answers.
GetItemsOf(queries) ==
  /\ resp = NoResp
  /\ \E query \in queries :
       \/ resp' = ListItems(itemsFile, query)
       \/ resp' = errorHandler("list", 0, "read failed", NoQuery)
  /\ UNCHANGED <<itemsFile, clock, posts, nWrites, staleWrite, statsVars, clientVars>>

GetItems == GetItemsOf(ListQueries)

\* GET /api/items/search with one of the given queries.
GetSearchOf(queries) ==
  /\ resp = NoResp
  /\ \E query \in queries :
       \/ resp' = SearchRoute(itemsFile, query)
       \/ resp' = errorHandler("search", 0, "read failed", NoQuery)
  /\ UNCHANGED <<itemsFile, clock, posts, nWrites, staleWrite, statsVars, clientVars>>

GetSearch == GetSearchOf(SearchQueries)

GetCategories ==
  /\ resp = NoResp
  /\ \/ resp' = CategoriesRoute(itemsFile)
     \/ resp' = errorHandler("categories", 0, "read failed", NoQuery)
  /\ UNCHANGED <<itemsFile, clock, posts, nWrites, staleWrite, statsVars, clientVars>>

GetItem ==
  /\ resp = NoResp
  /\ \E id \in Ids :
       LET query == [NoQuery EXCEPT !.id = id]
       IN \/ resp' = ItemRoute(itemsFile, query)
          \/ resp' = errorHandler("item", 0, "read failed", query)
  /\ UNCHANGED <<itemsFile, clock, posts, nWrites, staleWrite, statsVars, clientVars>>

\* The client has taken the response.
Observe ==
  /\ resp # NoResp
  /\ resp' = NoResp
  /\ UNCHANGED <<itemsFile, clock, posts, nWrites, staleWrite, statsVars, clientVars>>

NoPosts == [r \in {} |-> 0]

(***************************************************************************)
(* POST /api/items.  The handler reads the whole file, stamps the body     *)
(* with Date.now(), pushes it and writes the whole array back, then        *)
(* answers 201.  Nothing excludes another request between its read and its *)
(* write.                                                                  *)
(***************************************************************************)
Body(name, category, price) ==
  [id |-> Undef, name |-> name, category |-> category, price |-> price]

\* The bodies the clients send; no field is validated.
Bodies ==
  { Body(Str(<<"A", "b">>), Str(<<"C">>), Num(2)),
    Body(Null, Null, Null) }

\* The collection the file holds when the server starts.
Seed == <<[id |-> Num(0), name |-> Str(<<"b">>), category |-> Str(<<"c", "a">>),
           price |-> Num(1)]>>

NoItem == Body(Undef, Undef, Undef)

\* item.id = Date.now()
Stamp(body, now) == [body EXCEPT !.id = Num(now)]

\* (a faulty variant: unshift instead of push)
pushFront(data, item) == <<item>> \o data

\* data.push(item)
push(data, item) == Append(data, item)

\* (a faulty variant: append to the file as it is when written)
WrittenFileAppended(current, data, item) == Append(current, item)

\* What fs.writeFile receives: the array the handler read, with the item
\* pushed; never the file as it is at the time of the write.
WrittenFile(current, data, item) == push(data, item)

PostStart(body) ==
  /\ Cardinality(DOMAIN posts) < MaxPosts
  /\ posts' = [r \in 1..(Cardinality(DOMAIN posts) + 1) |->
                 IF r \in DOMAIN posts THEN posts[r]
                 ELSE [pc |-> "read", body |-> body, data |-> <<>>,
                       item |-> NoItem, readAt |-> 0, status |-> 0,
                       message |-> ""]]
  /\ UNCHANGED <<itemsFile, clock, resp, nWrites, staleWrite, statsVars, clientVars>>

\* const data = await readData(); item.id = Date.now(); data.push(item)
\* -- or readData throws and the error handler answers 500.
PostRead(r) ==
  /\ posts[r].pc = "read"
  /\ \/ posts' = [posts EXCEPT ![r].pc = "write", ![r].data = itemsFile,
                               ![r].item = Stamp(posts[r].body, clock),
                               ![r].readAt = nWrites]
     \/ posts' = [posts EXCEPT ![r].pc = "done", ![r].status = 500,
                               ![r].message = "read failed"]
  /\ UNCHANGED <<itemsFile, clock, resp, nWrites, staleWrite, statsVars, clientVars>>

\* await fs.writeFile(DATA_PATH, JSON.stringify(data)); res.status(201)
\* -- or the write fails and the error handler answers 500.
PostWrite(r) ==
  /\ posts[r].pc = "write"
  /\ \/ /\ itemsFile' = WrittenFile(itemsFile, posts[r].data, posts[r].item)
        /\ nWrites' = nWrites + 1
        /\ staleWrite' = (staleWrite \/ posts[r].readAt < nWrites)
        /\ posts' = [posts EXCEPT ![r].pc = "done", ![r].status = 201]
     \/ /\ posts' = [posts EXCEPT ![r].pc = "done", ![r].status = 500,
                                  ![r].message = "Write permission denied"]
        /\ UNCHANGED <<itemsFile, nWrites, staleWrite>>
  /\ UNCHANGED <<clock, resp, statsVars, clientVars>>

\* Time passes.
Tick ==
  /\ clock < MaxClock
  /\ clock' = clock + 1
  /\ UNCHANGED <<itemsFile, posts, resp, nWrites, staleWrite, statsVars, clientVars>>


(***************************************************************************)
(* GET /api/stats.  fs.stat, then the cached value when it is still valid, *)
(* else fs.readFile, JSON.parse, the new stats into the cache.  Node runs  *)
(* the callbacks in the order the file operations complete, so a file      *)
(* operation and its callback are one step.                                *)
(***************************************************************************)
\* let lastModified = null
NoTime == -1

\* let statsCache = null
NoStats == [total |-> -1, averagePrice |-> [num |-> 0, den |-> 0]]

RECURSIVE GCD(_, _)
GCD(a, b) == IF b = 0 THEN a ELSE GCD(b, a % b)

\* sum / count as a fraction in lowest terms; den = 0 is NaN, which JSON
\* writes as null.
Quotient(sum, count) ==
  IF ~IsNum(sum) \/ count = 0 THEN [num |-> 0, den |-> 0]
  ELSE LET abs == IF sum.n < 0 THEN 0 - sum.n ELSE sum.n
           g == GCD(abs, count)
       IN [num |-> sum.n \div g, den |-> count \div g]

\* acc + cur.price on the prices of the model: a number adds, null adds 0,
\* undefined makes the sum NaN.
RECURSIVE SumPrices(_)
SumPrices(list) ==
  IF list = <<>> THEN Num(0)
  ELSE NumAdd(SumPrices(SubSeq(list, 1, Len(list) - 1)),
              ToNumber(list[Len(list)].price))

\* { total: items.length, averagePrice: items.reduce(...) / items.length }
calculatedStats(list) ==
  [total |-> Len(list), averagePrice |-> Quotient(SumPrices(list), Len(list))]

\* (a faulty variant: the cache is used whatever the file's time)
CacheValidAnyTime(cache, recorded, observed) == cache # NoStats

\* statsCache && lastModified && stats.mtime <= lastModified
CacheValid(cache, recorded, observed) ==
  cache # NoStats /\ recorded # NoTime /\ observed <= recorded

\* (a faulty variant: the time recorded is later than the time observed)
RecordedTimeAhead(recorded, observed) == observed + 1

\* (a faulty variant: the time of the computation is not recorded)
RecordedTimeKept(recorded, observed) == recorded

\* lastModified = stats.mtime
RecordedTime(recorded, observed) == observed

StatsContents ==
  { [ok |-> TRUE, items |-> <<>>],
    [ok |-> TRUE, items |-> <<Item(1, Str(<<"A", "b">>), Str(<<"C">>), Num(2))>>],
    [ok |-> TRUE, items |-> <<Item(1, Str(<<"A", "b">>), Str(<<"C">>), Num(2)),
                              Item(2, Str(<<"b">>), Str(<<"c", "a">>), Num(1))>>],
    [ok |-> FALSE, items |-> <<>>] }

NoStatsReqs == [r \in {} |-> 0]

InFlight == {r \in DOMAIN sreqs : sreqs[r].pc # "done"}

NewStatsReq ==
  [pc |-> "read", mtime |-> NoTime, status |-> 0, body |-> NoStats,
   fromCache |-> FALSE, didRead |-> FALSE, message |-> "",
   \* history
   statVer |-> version, readVer |-> 0, itemsRead |-> <<>>,
   cacheSeen |-> statsCache,
   recordedSeen |-> lastModified, alone |-> InFlight = {},
   previous |-> lastAnswered]

AddStatsReq(rec) ==
  [r \in 1..(Cardinality(DOMAIN sreqs) + 1) |->
     IF r \in DOMAIN sreqs THEN sreqs[r] ELSE rec]

\* A request arrives; fs.stat and its callback: the stat fails (500), or the
\* cache is valid and answers, or fs.readFile is started.
StatsStat ==
  /\ ~crashed
  /\ Cardinality(DOMAIN sreqs) < MaxStats
  /\ \/ /\ sreqs' = AddStatsReq([NewStatsReq EXCEPT
                       !.pc = "done", !.status = 500, !.message = "stat failed"])
        /\ lastAnswered' = Cardinality(DOMAIN sreqs) + 1
     \/ /\ CacheValid(statsCache, lastModified, mtime)
        /\ sreqs' = AddStatsReq([NewStatsReq EXCEPT
                       !.pc = "done", !.mtime = mtime, !.status = 200,
                       !.body = statsCache, !.fromCache = TRUE])
        /\ lastAnswered' = Cardinality(DOMAIN sreqs) + 1
     \/ /\ ~CacheValid(statsCache, lastModified, mtime)
        /\ sreqs' = AddStatsReq([NewStatsReq EXCEPT !.mtime = mtime])
        /\ UNCHANGED lastAnswered
  /\ UNCHANGED <<statsFile, mtime, statsCache, lastModified, crashed, version, storeVars, clientVars>>

\* fs.readFile and its callback: the read fails (500), or JSON.parse throws
\* inside the callback, where nothing catches it (the process dies without
\* an answer), or the stats are computed, cached and sent.
StatsRead(r) ==
  /\ ~crashed
  /\ sreqs[r].pc = "read"
  /\ \/ /\ sreqs' = [sreqs EXCEPT ![r].pc = "done", ![r].status = 500,
                                  ![r].message = "read failed",
                                  ![r].didRead = TRUE, ![r].readVer = version]
        /\ lastAnswered' = r
        /\ UNCHANGED <<statsCache, lastModified, crashed>>
     \/ /\ ~statsFile.ok
        /\ crashed' = TRUE
        /\ sreqs' = [sreqs EXCEPT ![r].didRead = TRUE, ![r].readVer = version]
        /\ UNCHANGED <<statsCache, lastModified, lastAnswered>>
     \/ /\ statsFile.ok
        /\ statsCache' = calculatedStats(statsFile.items)
        /\ lastModified' = RecordedTime(lastModified, sreqs[r].mtime)
        /\ sreqs' = [sreqs EXCEPT ![r].pc = "done", ![r].status = 200,
                                  ![r].body = calculatedStats(statsFile.items),
                                  ![r].didRead = TRUE, ![r].readVer = version,
                                  ![r].itemsRead = statsFile.items]
        /\ lastAnswered' = r
        /\ UNCHANGED crashed
  /\ UNCHANGED <<statsFile, mtime, version, storeVars, clientVars>>

\* Something outside the server rewrites the file.  The modification time
\* never goes back; it stays the same when the file is rewritten within the
\* granularity of the file system's clock.
ModifyFile ==
  /\ version < MaxMods
  /\ \E content \in StatsContents, raise \in {0, 1} :
       /\ statsFile' = content
       /\ mtime' = mtime + raise
  /\ version' = version + 1
  /\ UNCHANGED <<statsCache, lastModified, sreqs, crashed, lastAnswered, storeVars, clientVars>>

(***************************************************************************)
(* The client.  DataProvider holds items, pagination, filters, loading and *)
(* categories and one AbortController slot for its list operations; it     *)
(* outlives the pages.  A page (Items or ItemDetail) owns a mounted flag,  *)
(* and ItemDetail owns the slot of its cancellable fetch.  An operation    *)
(* runs up to its first await when it is called; what follows each await   *)
(* is a step of its own.  Data are named by the request that brought them. *)
(***************************************************************************)
ListOps == {"fetchItems", "searchItems", "loadMoreItems", "fetchAllItems"}

\* fetch(url, { signal }) in: fetchItems, searchItems, loadMoreItems,
\* fetchAllItems and cancellableFetch; fetchCategories passes no signal.
HasSignal(op) == op # "fetchCategories"

InitialPagination == [hasNextPage |-> FALSE]

\* The pagination and filters an operation falls back to when the result
\* carries none: those of the render that made the callback.  searchItems is
\* made once (no dependencies), loadMoreItems again whenever pagination,
\* filters or loading change; the other operations use neither.
Closure(op) ==
  IF op = "loadMoreItems"
  THEN [pagination |-> pagination, filters |-> filters]
  ELSE [pagination |-> InitialPagination, filters |-> 0]

NewRequest(op, view) ==
  [op |-> op, view |-> view, pc |-> "fetch", signal |-> HasSignal(op),
   aborted |-> FALSE, seen |-> Closure(op)]

\* No step but a failure that is caught with the page mounted writes to
\* console.error.
NoLog == logged' = FALSE

\* (a faulty variant: the catch block logs a cancellation as well)
LogsAnyError(r, cancelled) == views[creqs[r].view].isMounted

\* catch (error) { if (error.name !== 'AbortError' && isMountedRef.current)
\*                   console.error(...) }
Logs(r, cancelled) == ~cancelled /\ views[creqs[r].view].isMounted

\* Items.js: the quiet period of the debounce effect, in units of 100 ms.
Delay == 3

NoTimer == [value |-> "", left |-> -1]

\* (a faulty variant: a pending timer is left to run when the text changes)
StartTimerOnce(text) ==
  [value |-> text, left |-> IF timer = NoTimer THEN Delay ELSE timer.left]

\* The debounce effect: clearTimeout(timer) of the run before, then
\* setTimeout(() => setDebouncedSearch(searchForm.q), 300).
StartTimer(text) == [value |-> text, left |-> Delay]

InitialForm == [q |-> "", category |-> ""]

\* (a faulty variant: the request the slot holds is left to run)
AbortNothing(reqs, ref) == reqs

\* if (abortControllerRef.current) abortControllerRef.current.abort()
Abort(reqs, ref) ==
  IF ref # 0 /\ reqs[ref].pc # "done"
  THEN [reqs EXCEPT ![ref].aborted = TRUE]
  ELSE reqs

\* The client between two awaits: the requests, the provider's controller
\* slot and the loading flag.
Sync(reqs, ref, busy) == [creqs |-> reqs, ref |-> ref, loading |-> busy]

\* A list operation up to its await of fetch: setLoading(true), abort what
\* the slot holds, a new controller into the slot, fetch with its signal.
CallListOp(c, op, view) ==
  Sync(Append(Abort(c.creqs, c.ref), NewRequest(op, view)),
       Len(c.creqs) + 1, TRUE)

\* fetchCategories up to its await of fetch.
CallFetchCategories(c, view) ==
  Sync(Append(c.creqs, NewRequest("fetchCategories", view)), c.ref, c.loading)

\* (a faulty variant: the continuation is not gated)
MayUpdateAlways(view) == TRUE

\* if (isMountedRef.current)
MayUpdate(view) == views[view].isMounted

Current == Len(views)

Mounted(kind) ==
  /\ views # <<>>
  /\ views[Current].kind = kind
  /\ views[Current].isMounted

CanMount ==
  /\ Len(views) < MaxViews
  /\ IF views = <<>> THEN TRUE ELSE ~views[Current].isMounted

Here == Sync(creqs, abortControllerRef, loading)

\* The Items page mounts; its effects run: fetchItems and fetchCategories
\* (initial data fetch), then fetchItems again (the search effect).
MountItems ==
  /\ CanMount
  /\ Len(creqs) + 3 <= MaxRequests
  /\ LET v == Len(views) + 1
         c == CallListOp(CallFetchCategories(CallListOp(Here, "fetchItems", v), v),
                         "fetchItems", v)
     IN /\ views' = Append(views, [kind |-> "items", isMounted |-> TRUE, controller |-> 0])
        /\ creqs' = c.creqs
        /\ abortControllerRef' = c.ref
        /\ loading' = c.loading
  /\ searchForm' = InitialForm
  /\ debouncedSearch' = ""
  /\ viewMode' = "paginated"
  /\ timer' = StartTimer("")
  /\ sinceChange' = 0
  /\ burst' = 0
  /\ lastParams' = [search |-> "", category |-> ""]
  /\ NoLog
  /\ UNCHANGED <<items, pagination, filters, categories, detailItem, navigations>>
  /\ UNCHANGED <<lateResult, storeVars, statsVars>>

\* The user turns a page or changes a filter or the view mode (fetchItems,
\* fetchAllItems), or a consumer calls searchItems.
UserListOp(op) ==
  /\ Mounted("items")
  /\ Len(creqs) < MaxRequests
  /\ LET c == CallListOp(Here, op, Current)
     IN /\ creqs' = c.creqs
        /\ abortControllerRef' = c.ref
        /\ loading' = c.loading
  /\ NoLog
  /\ UNCHANGED <<views, items, pagination, filters, categories, detailItem, navigations>>
  /\ UNCHANGED <<lateResult, formVars, storeVars, statsVars>>

\* loadMoreItems: if (!pagination.hasNextPage || loading) return
LoadMoreItems ==
  /\ pagination.hasNextPage /\ ~loading
  /\ UserListOp("loadMoreItems")

(***************************************************************************)
(* The search form of the Items page.  Time passes in units of 100 ms; a   *)
(* change of the text, the render it causes and the effects of that render *)
(* (the cleanup of the debounce effect and its new timer) are one step, as *)
(* the effects of a render caused by an input event run before the next    *)
(* event or timer is handled.  The text changes through handleFormChange.  *)
(***************************************************************************)
\* if (viewMode === 'virtualized') fetchAllItems(...) else fetchItems(...)
SearchEffectOp(mode) ==
  IF mode = "virtualized" THEN "fetchAllItems" ELSE "fetchItems"

\* The search effect runs, one of its dependencies having changed.
SearchEffect(mode, search, category) ==
  /\ Len(creqs) < MaxRequests
  /\ LET c == CallListOp(Here, SearchEffectOp(mode), Current)
     IN /\ creqs' = c.creqs
        /\ abortControllerRef' = c.ref
        /\ loading' = c.loading
  /\ lastParams' = [search |-> search, category |-> category]

\* The debounce effect runs again, searchForm.q having changed.
DebounceEffect(text) ==
  /\ timer' = StartTimer(text)
  /\ sinceChange' = 0
  /\ burst' = IF timer = NoTimer THEN 1 ELSE Min(burst + 1, 2)

\* handleFormChange('q', value)
ChangeText(text) ==
  /\ Mounted("items")
  /\ text # searchForm.q
  /\ searchForm' = [searchForm EXCEPT !.q = text]
  /\ DebounceEffect(text)
  /\ UNCHANGED <<creqs, abortControllerRef, loading, lastParams>>
  /\ NoLog
  /\ UNCHANGED <<debouncedSearch, viewMode>>
  /\ UNCHANGED <<views, items, pagination, filters, categories, detailItem,
                 navigations, lateResult, storeVars, statsVars>>

\* handleFormChange('category', value)
ChangeCategory(category) ==
  /\ Mounted("items")
  /\ category # searchForm.category
  /\ searchForm' = [searchForm EXCEPT !.category = category]
  /\ SearchEffect(viewMode, debouncedSearch, category)
  /\ NoLog
  /\ UNCHANGED <<debouncedSearch, viewMode, timer, sinceChange, burst>>
  /\ UNCHANGED <<views, items, pagination, filters, categories, detailItem,
                 navigations, lateResult, storeVars, statsVars>>

\* setViewMode(e.target.value)
ChangeViewMode(mode) ==
  /\ Mounted("items")
  /\ mode # viewMode
  /\ viewMode' = mode
  /\ SearchEffect(mode, debouncedSearch, searchForm.category)
  /\ NoLog
  /\ UNCHANGED <<searchForm, debouncedSearch, timer, sinceChange, burst>>
  /\ UNCHANGED <<views, items, pagination, filters, categories, detailItem,
                 navigations, lateResult, storeVars, statsVars>>

\* The timer of the debounce effect fires, at its time or later:
\* setDebouncedSearch(searchForm.q), with the text of the render that set
\* it; the search effect runs when the debounced text has changed.
TimerFires ==
  /\ timer # NoTimer
  /\ timer.left = 0
  /\ timer' = NoTimer
  /\ debouncedSearch' = timer.value
  /\ IF timer.value # debouncedSearch
     THEN SearchEffect(viewMode, timer.value, searchForm.category)
     ELSE UNCHANGED <<creqs, abortControllerRef, loading, lastParams>>
  /\ NoLog
  /\ UNCHANGED <<searchForm, viewMode, sinceChange, burst>>
  /\ UNCHANGED <<views, items, pagination, filters, categories, detailItem,
                 navigations, lateResult, storeVars, statsVars>>

\* 100 ms pass.
Elapse ==
  /\ (timer # NoTimer /\ timer.left > 0) \/ sinceChange < Delay
  /\ timer' = IF timer # NoTimer /\ timer.left > 0
              THEN [timer EXCEPT !.left = @ - 1]
              ELSE timer
  /\ sinceChange' = Min(sinceChange + 1, Delay)
  /\ UNCHANGED <<searchForm, debouncedSearch, viewMode, burst, lastParams, logged>>
  /\ UNCHANGED <<views, creqs, abortControllerRef, shown, lateResult,
                 storeVars, statsVars>>

\* The effect of ItemDetail runs, at the mount and again when the id has
\* changed or the page has rendered again (cancellableFetch is a new
\* function at every render): cancellableFetch aborts what its slot holds
\* and fetches.
FetchItem(v) ==
  /\ creqs' = Append(Abort(creqs, views[v].controller), NewRequest("fetchItem", v))
  /\ NoLog
  /\ UNCHANGED <<abortControllerRef, shown>>
  /\ UNCHANGED <<lateResult, formVars, storeVars, statsVars>>

MountDetail ==
  /\ CanMount
  /\ Len(creqs) < MaxRequests
  /\ views' = Append(views, [kind |-> "detail", isMounted |-> TRUE,
                             controller |-> Len(creqs) + 1])
  /\ creqs' = Append(creqs, NewRequest("fetchItem", Len(views) + 1))
  /\ NoLog
  /\ UNCHANGED <<abortControllerRef, shown>>
  /\ UNCHANGED <<lateResult, formVars, storeVars, statsVars>>

ChangeId ==
  /\ Mounted("detail")
  /\ Len(creqs) < MaxRequests
  /\ views' = [views EXCEPT ![Current].controller = Len(creqs) + 1]
  /\ FetchItem(Current)

\* The page is torn down: useIsMounted's cleanup, for ItemDetail the
\* cleanup of useCancellableFetch, for Items the cleanup of the debounce
\* effect (clearTimeout).
Unmount ==
  /\ views # <<>>
  /\ views[Current].isMounted
  /\ views' = [views EXCEPT ![Current].isMounted = FALSE]
  /\ creqs' = IF views[Current].kind = "detail"
              THEN Abort(creqs, views[Current].controller)
              ELSE creqs
  /\ timer' = IF views[Current].kind = "items" THEN NoTimer ELSE timer
  /\ NoLog
  /\ UNCHANGED <<searchForm, debouncedSearch, viewMode, sinceChange, burst, lastParams>>
  /\ UNCHANGED <<abortControllerRef, shown>>
  /\ UNCHANGED <<lateResult, storeVars, statsVars>>

\* The operation has returned; nothing of the request matters any more.
Settled(r) ==
  [creqs EXCEPT ![r] = [op |-> "", view |-> 0, pc |-> "done", signal |-> FALSE,
                        aborted |-> FALSE, seen |-> Closure("")]]

\* A step that brings no result leaves the history as it is.
NoResult == UNCHANGED lateResult

\* A step that brings the result of request r.
Result(r) == lateResult' = (lateResult \/ ~views[creqs[r].view].isMounted)

\* finally { if (isMountedRef.current) setLoading(false) }
Finally(r) ==
  loading' = IF MayUpdate(creqs[r].view) THEN FALSE ELSE loading

\* A list operation after await fetch(...): AbortError when its signal was
\* aborted, a network error, or the response, of a status that is ok or of
\* an error status, whose body is then awaited either way.
ListFetchSettles(r) ==
  /\ creqs[r].op \in ListOps
  /\ creqs[r].pc = "fetch"
  /\ \/ /\ creqs[r].aborted
        /\ creqs' = Settled(r) /\ NoResult
        /\ logged' = Logs(r, TRUE)
        /\ Finally(r)
     \/ /\ ~creqs[r].aborted
        /\ creqs' = Settled(r) /\ NoResult
        /\ logged' = Logs(r, FALSE)
        /\ Finally(r)
     \/ /\ ~creqs[r].aborted
        /\ \E body \in {"json", "error"} :
             creqs' = [creqs EXCEPT ![r].pc = body]
        /\ NoResult
        /\ NoLog
        /\ UNCHANGED loading
  /\ UNCHANGED <<views, abortControllerRef, items, pagination, filters,
                 categories, detailItem, navigations>>
  /\ UNCHANGED <<formVars, storeVars, statsVars>>

\* What the operation shows of the result of request r.
ShownItems(r) ==
  IF creqs[r].op = "loadMoreItems" THEN Append(items, r) ELSE <<r>>

ShownPagination(r, more) ==
  [hasNextPage |-> IF creqs[r].op = "fetchAllItems" THEN FALSE ELSE more]

\* What the operation shows of a result that carries no data, no
\* pagination and no filters, as the body { message } of an error response:
\* result.data || [], result.pagination || ..., result.filters || ...
FallbackItems(r) ==
  IF creqs[r].op = "loadMoreItems" THEN items ELSE <<>>

FallbackPagination(r) ==
  IF creqs[r].op \in {"searchItems", "loadMoreItems"}
  THEN creqs[r].seen.pagination
  ELSE [hasNextPage |-> FALSE]

FallbackFilters(r) ==
  IF creqs[r].op \in {"searchItems", "loadMoreItems"}
  THEN creqs[r].seen.filters
  ELSE r

\* A list operation after await response.json(): AbortError, a body that is
\* not JSON, or the result, be it the body of a 200 or the { message } of an
\* error response (response.ok is not looked at): the state is set when the
\* page is mounted, the slot is cleared, loading is reset when the page is
\* mounted.
ListJsonSettles(r) ==
  /\ creqs[r].op \in ListOps
  /\ creqs[r].pc \in {"json", "error"}
  /\ \/ /\ creqs[r].aborted
        /\ creqs' = Settled(r) /\ NoResult
        /\ logged' = Logs(r, TRUE)
        /\ UNCHANGED <<abortControllerRef, items, pagination, filters>>
     \/ /\ ~creqs[r].aborted
        /\ creqs' = Settled(r) /\ NoResult
        /\ logged' = Logs(r, FALSE)
        /\ UNCHANGED <<abortControllerRef, items, pagination, filters>>
     \/ /\ ~creqs[r].aborted
        /\ creqs[r].pc = "json"
        /\ creqs' = Settled(r) /\ Result(r)
        /\ abortControllerRef' = 0
        /\ NoLog
        /\ IF MayUpdate(creqs[r].view)
           THEN \E more \in BOOLEAN :
                  /\ items' = ShownItems(r)
                  /\ pagination' = ShownPagination(r, more)
                  /\ filters' = r
           ELSE UNCHANGED <<items, pagination, filters>>
     \/ /\ ~creqs[r].aborted
        /\ creqs[r].pc = "error"
        /\ creqs' = Settled(r) /\ Result(r)
        /\ abortControllerRef' = 0
        /\ NoLog
        /\ IF MayUpdate(creqs[r].view)
           THEN /\ items' = FallbackItems(r)
                /\ pagination' = FallbackPagination(r)
                /\ filters' = FallbackFilters(r)
           ELSE UNCHANGED <<items, pagination, filters>>
  /\ Finally(r)
  /\ UNCHANGED <<views, categories, detailItem, navigations>>
  /\ UNCHANGED <<formVars, storeVars, statsVars>>

\* fetchCategories after either of its awaits.
CategoriesSettles(r) ==
  /\ creqs[r].op = "fetchCategories"
  /\ \/ /\ creqs[r].pc = "fetch"
        /\ creqs' = [creqs EXCEPT ![r].pc = "json"] /\ NoResult
        /\ NoLog
        /\ UNCHANGED categories
     \/ /\ creqs[r].pc # "done"
        /\ creqs' = Settled(r) /\ NoResult
        /\ logged' = views[creqs[r].view].isMounted
        /\ UNCHANGED categories
     \/ /\ creqs[r].pc = "json"
        /\ creqs' = Settled(r) /\ Result(r)
        /\ NoLog
        /\ categories' = IF MayUpdate(creqs[r].view) THEN r ELSE categories
  /\ UNCHANGED <<views, abortControllerRef, items, pagination, filters,
                 loading, detailItem, navigations>>
  /\ UNCHANGED <<formVars, storeVars, statsVars>>

\* if (isMountedRef.current) { console.error(...); navigate('/') }
Navigate(r) ==
  /\ navigations' = IF MayUpdate(creqs[r].view) THEN navigations + 1 ELSE navigations
  /\ logged' = views[creqs[r].view].isMounted

\* fetchItem after await cancellableFetch(...): null when the fetch was
\* aborted; else the slot is cleared, and the response is not ok (navigate),
\* or its body is awaited; or the fetch failed (navigate).
ItemFetchSettles(r) ==
  /\ creqs[r].op = "fetchItem"
  /\ creqs[r].pc = "fetch"
  /\ \/ /\ creqs[r].aborted
        /\ creqs' = Settled(r) /\ NoResult
        /\ NoLog
        /\ UNCHANGED <<views, navigations>>
     \/ /\ ~creqs[r].aborted
        /\ creqs' = Settled(r) /\ NoResult
        /\ Navigate(r)
        /\ UNCHANGED views
     \/ /\ ~creqs[r].aborted
        /\ views' = [views EXCEPT ![creqs[r].view].controller = 0]
        /\ \/ /\ creqs' = Settled(r) /\ NoResult
              /\ Navigate(r)
           \/ /\ creqs' = [creqs EXCEPT ![r].pc = "json"] /\ NoResult
              /\ NoLog
              /\ UNCHANGED navigations
  /\ UNCHANGED <<abortControllerRef, items, pagination, filters, loading,
                 categories, detailItem>>
  /\ UNCHANGED <<formVars, storeVars, statsVars>>

\* fetchItem after await response.json().
ItemJsonSettles(r) ==
  /\ creqs[r].op = "fetchItem"
  /\ creqs[r].pc = "json"
  /\ \/ /\ creqs' = Settled(r) /\ NoResult
        /\ Navigate(r)
        /\ UNCHANGED detailItem
     \/ /\ creqs' = Settled(r) /\ Result(r)
        /\ detailItem' = IF MayUpdate(creqs[r].view) THEN r ELSE detailItem
        /\ NoLog
        /\ UNCHANGED navigations
  /\ UNCHANGED <<views, abortControllerRef, items, pagination, filters,
                 loading, categories>>
  /\ UNCHANGED <<formVars, storeVars, statsVars>>

ClientAtRest ==
  /\ views = <<>>
  /\ creqs = <<>>
  /\ abortControllerRef = 0
  /\ items = <<>>
  /\ pagination = InitialPagination
  /\ filters = 0
  /\ loading = FALSE
  /\ categories = 0
  /\ detailItem = 0
  /\ navigations = 0
  /\ lateResult = FALSE
  /\ searchForm = InitialForm
  /\ debouncedSearch = ""
  /\ viewMode = "paginated"
  /\ timer = NoTimer
  /\ sinceChange = 0
  /\ burst = 0
  /\ lastParams = [search |-> "", category |-> ""]
  /\ logged = FALSE

InitStatsVars ==
  /\ statsFile = [ok |-> TRUE, items |-> <<>>]
  /\ mtime = 1
  /\ statsCache = NoStats
  /\ lastModified = NoTime
  /\ sreqs = NoStatsReqs
  /\ crashed = FALSE
  /\ lastAnswered = 0
  /\ version = 0

InitStoreVars ==
  /\ itemsFile = Seed
  /\ clock = 1
  /\ posts = NoPosts
  /\ resp = NoResp
  /\ nWrites = 0
  /\ staleWrite = FALSE

\* The stats file is a fixed one while the items API is looked at, and the
\* other way round.
StatsAtRest ==
  /\ statsFile = [ok |-> TRUE, items |-> <<>>]
  /\ mtime = 1
  /\ statsCache = NoStats
  /\ lastModified = NoTime
  /\ sreqs = NoStatsReqs
  /\ crashed = FALSE
  /\ lastAnswered = 0
  /\ version = 0

InitStats == InitStatsVars /\ InitStoreVars /\ ClientAtRest

NextStats ==
  \/ StatsStat
  \/ \E r \in DOMAIN sreqs : StatsRead(r)
  \/ ModifyFile

SpecStats == InitStats /\ [][NextStats]_vars

InitQuery ==
  /\ itemsFile \in Collections
  /\ clock = 0
  /\ posts = NoPosts
  /\ resp = NoResp
  /\ nWrites = 0
  /\ staleWrite = FALSE
  /\ StatsAtRest
  /\ ClientAtRest

NextQuery == GetItems \/ GetSearch \/ GetCategories \/ GetItem \/ Observe

SpecQuery == InitQuery /\ [][NextQuery]_vars

\* The category listing over collections that also hold an item created from
\* a body without a category.
InitCategories ==
  /\ itemsFile \in
       { c \in SeqsUpTo(Pool \cup {Item(6, Str(<<"a">>), Undef, Num(1))}, MaxLen) :
           NoRepeat(c) }
  /\ clock = 0
  /\ posts = NoPosts
  /\ resp = NoResp
  /\ nWrites = 0
  /\ staleWrite = FALSE
  /\ StatsAtRest
  /\ ClientAtRest

NextCategories == GetCategories \/ Observe

SpecCategories == InitCategories /\ [][NextCategories]_vars

InitClient == InitStoreVars /\ StatsAtRest /\ ClientAtRest

NextClient ==
  \/ MountItems
  \/ MountDetail
  \/ ChangeId
  \/ Unmount
  \/ \E op \in {"fetchItems", "searchItems", "fetchAllItems"} : UserListOp(op)
  \/ LoadMoreItems
  \/ \E r \in DOMAIN creqs :
        \/ ListFetchSettles(r)
        \/ ListJsonSettles(r)
        \/ CategoriesSettles(r)
        \/ ItemFetchSettles(r)
        \/ ItemJsonSettles(r)

SpecClient == InitClient /\ [][NextClient]_vars

\* The Items page and its search form, while the requests are in flight:
\* no step of the form reads what a response sets.
NextDebounce ==
  \/ MountItems
  \/ Unmount
  \/ \E text \in {"", "a", "ab"} : ChangeText(text)
  \/ \E category \in {"", "C"} : ChangeCategory(category)
  \/ \E mode \in {"paginated", "virtualized"} : ChangeViewMode(mode)
  \/ TimerFires
  \/ Elapse

SpecDebounce == InitClient /\ [][NextDebounce]_vars

Init == InitStoreVars /\ StatsAtRest /\ ClientAtRest

Next ==
  \/ \E body \in Bodies : PostStart(body)
  \/ \E r \in DOMAIN posts : PostRead(r)
  \/ \E r \in DOMAIN posts : PostWrite(r)
  \/ Tick
  \/ GetItem
  \/ GetItemsOf({NoQuery})
  \/ GetSearchOf({NoQuery})
  \/ GetCategories
  \/ Observe

Spec == Init /\ [][Next]_vars

\* Creation, listing and stats side by side.  items.js reads and writes
\* routes/../../../data/items.json and stats.js reads
\* routes/../../data/items.json: itemsFile is the one, statsFile the other.
NextFiles ==
  \/ \E body \in Bodies : PostStart(body)
  \/ \E r \in DOMAIN posts : PostRead(r)
  \/ \E r \in DOMAIN posts : PostWrite(r)
  \/ Tick
  \/ GetItemsOf({NoQuery})
  \/ Observe
  \/ StatsStat
  \/ \E r \in DOMAIN sreqs : StatsRead(r)

SpecFiles == Init /\ [][NextFiles]_vars

(***************************************************************************)
(* Properties of the query pipeline (SpecQuery).                           *)
(***************************************************************************)
\* What the specification says an item must satisfy to pass the filters of
\* the list endpoint.
PassesList(item, query) ==
  LET q == IF query.q = Undef THEN <<>> ELSE trim(toLowerCase(query.q.s))
      c == IF query.category = Undef THEN <<>> ELSE trim(toLowerCase(query.category.s))
  IN /\ q # <<>> =>
          \/ IsStr(item.name) /\ includes(toLowerCase(item.name.s), q)
          \/ IsStr(item.category) /\ includes(toLowerCase(item.category.s), q)
     /\ c # <<>> => IsStr(item.category) /\ toLowerCase(item.category.s) = c

\* The size of the filtered set of the response at hand.
FilteredCount ==
  IF resp.route = "search"
    THEN Len(searchItems(itemsFile, Default(resp.query.q, Str(<<>>)),
                         Default(resp.query.category, Str(<<>>)),
                         Default(resp.query.minPrice, Str(<<>>)),
                         Default(resp.query.maxPrice, Str(<<>>))).arr)
    ELSE Cardinality({i \in 1..Len(itemsFile) : PassesList(itemsFile[i], resp.query)})

\* The page number the request asked for is the one the response carries.
PageEchoed ==
  /\ resp.query.page = Undef => resp.pagination.currentPage = Num(1)
  /\ IsStr(resp.query.page) /\ IsNum(resp.pagination.currentPage)
       /\ resp.pagination.currentPage.n >= 0
       => Digits(resp.pagination.currentPage.n) = resp.query.page.s

\* C1: for limit > 0 and page >= 1 the data of a list response has
\* min(limit, max(0, totalItems - (page-1)*limit)) elements, totalItems being
\* the number of items that pass the filters; a page past the last one is
\* empty and carries the page number asked for.
C1_PageLength ==
  (/\ resp.route = "list" /\ resp.status = 200
   /\ IsNum(resp.pagination.itemsPerPage) /\ resp.pagination.itemsPerPage.n > 0
   /\ IsNum(resp.pagination.currentPage) /\ resp.pagination.currentPage.n >= 1)
  => LET limit == resp.pagination.itemsPerPage.n
         page == resp.pagination.currentPage.n
     IN /\ Len(resp.data) = Min(limit, Max(0, FilteredCount - (page - 1) * limit))
        /\ (page - 1) * limit >= FilteredCount => resp.data = <<>>
        /\ PageEchoed

\* A last page that is not full: page 2 of three items by two.
C1_Witness ==
  /\ resp.route = "list" /\ resp.status = 200
  /\ resp.pagination.itemsPerPage = Num(2)
  /\ resp.pagination.currentPage = Num(2)
  /\ FilteredCount = 3
  /\ Len(resp.data) = 1

\* ceil(total / limit) for limit > 0, from its definition.
CeilOf(total, limit) ==
  CHOOSE k \in 0..total : k * limit >= total /\ (k - 1) * limit < total

\* C2: for limit > 0 a list or search response has totalItems equal to the
\* size of the filtered set, totalPages = ceil(totalItems / limit),
\* hasNextPage = (currentPage < totalPages) and hasPrevPage = (currentPage > 1);
\* both flags are false when the page asked for is no number.
C2_PaginationMetadata ==
  (/\ resp.route \in {"list", "search"} /\ resp.status = 200
   /\ IsNum(resp.pagination.itemsPerPage) /\ resp.pagination.itemsPerPage.n > 0)
  => LET limit == resp.pagination.itemsPerPage.n
         page == resp.pagination.currentPage
         pages == CeilOf(FilteredCount, limit)
     IN /\ resp.pagination.totalItems = Num(FilteredCount)
        /\ resp.pagination.totalPages = Num(pages)
        /\ resp.pagination.hasNextPage = (IsNum(page) /\ page.n < pages)
        /\ resp.pagination.hasPrevPage = (IsNum(page) /\ page.n > 1)

\* A middle page of a search: page 2 of three pages.
C2_Witness ==
  /\ resp.route = "search" /\ resp.status = 200
  /\ resp.pagination.itemsPerPage = Num(1)
  /\ resp.pagination.currentPage = Num(2)
  /\ resp.pagination.totalPages = Num(3)
  /\ resp.pagination.hasNextPage /\ resp.pagination.hasPrevPage

(***************************************************************************)
(* Properties of item creation (Spec).                                     *)
(***************************************************************************)
Created == {r \in DOMAIN posts : posts[r].pc = "done" /\ posts[r].status = 201}

\* The path segment that spells an id.
IdSegment(id) == Str(Digits(id.n))

\* C3: a GET /api/items/i handled after the creation that was answered 201
\* with id i returns the created item.  Stated for creations that did not
\* race (no write based on an older read), and for a GET whose read works.
C3_CreateThenFetch ==
  [][(/\ resp = NoResp /\ resp'.route = "item"
      /\ resp'.message # "read failed" /\ ~staleWrite)
     => \A r \in Created :
          resp'.query.id = IdSegment(posts[r].item.id)
            => resp'.status = 200 /\ resp'.data = <<posts[r].item>>]_vars

\* C4: a successful POST writes the collection it read, unchanged and in the
\* same order, followed by the created item and nothing else; when no other
\* write came between its read and its write, that is the previous content
\* of the file followed by the created item.
C4_CreatePreservesCollection ==
  [][\A r \in DOMAIN posts :
       (posts[r].pc = "write" /\ posts'[r].status = 201)
       => LET old == posts[r].data
          IN /\ Len(itemsFile') = Len(old) + 1
             /\ SubSeq(itemsFile', 1, Len(old)) = old
             /\ itemsFile'[Len(itemsFile')] = posts'[r].item
             /\ posts'[r].item = [posts[r].body EXCEPT !.id = posts'[r].item.id]
             /\ posts[r].readAt = nWrites
                  => itemsFile' = itemsFile \o <<posts'[r].item>>]_vars

\* A creation answered 201 that found two items and left three.
C4_Witness ==
  \E r \in Created :
    /\ Len(posts[r].data) = 2
    /\ itemsFile = posts[r].data \o <<posts[r].item>>

\* C5: the ids of the collection are pairwise distinct, and so are the ids
\* two creations were answered with.
C5_UniqueIds ==
  /\ \A i, j \in 1..Len(itemsFile) :
       i # j => itemsFile[i].id # itemsFile[j].id
  /\ \A r1, r2 \in Created :
       r1 # r2 => posts[r1].item.id # posts[r2].item.id

\* C8: every successful write is answered 201, and once a write was based
\* on a read older than the file, the file holds fewer new items than
\* creations were answered 201: an item is lost.  Without such a write no
\* item is lost.
C8_LostUpdate ==
  /\ nWrites = Cardinality(Created)
  /\ staleWrite => Len(itemsFile) < Len(Seed) + Cardinality(Created)
  /\ ~staleWrite => Len(itemsFile) = Len(Seed) + Cardinality(Created)

\* Two creations read the file before either wrote it; both were answered
\* 201 and the file holds the item of one of them only.
C8_Witness ==
  \E r1, r2 \in Created :
    /\ r1 # r2
    /\ posts[r1].readAt = 0 /\ posts[r2].readAt = 0
    /\ posts[r1].item # posts[r2].item
    /\ itemsFile = Seed \o <<posts[r2].item>>
    /\ \A i \in 1..Len(itemsFile) : itemsFile[i] # posts[r1].item

(***************************************************************************)
(* Properties of the stats cache (SpecStats).                              *)
(***************************************************************************)
\* r2 is the request that arrived next after r1, it arrived when nothing was
\* in flight and r1 was the last request answered: the two are successive.
Successive(r1, r2) ==
  /\ r1 \in DOMAIN sreqs
  /\ r2 \in DOMAIN sreqs
  /\ r2 = r1 + 1
  /\ sreqs[r2].previous = r1
  /\ sreqs[r2].alone

StatOk(r) == sreqs[r].mtime # NoTime

Unmodified(r1, r2) == sreqs[r1].statVer = sreqs[r2].statVer

\* The request read the file and answered what it computed from the read.
Recomputed(r) ==
  /\ ~sreqs[r].fromCache
  /\ sreqs[r].pc = "done" => sreqs[r].didRead
  /\ sreqs[r].status = 200 =>
        /\ sreqs[r].body = calculatedStats(sreqs[r].itemsRead)
        /\ sreqs[r].readVer = version =>
              sreqs[r].body = calculatedStats(statsFile.items)

\* C6 as stated: of two successive requests with no modification of the file
\* between them, the second is answered from the cache, whatever became of
\* the first.
C6_SecondFromCache ==
  \A r1, r2 \in DOMAIN sreqs :
    (Successive(r1, r2) /\ Unmodified(r1, r2) /\ StatOk(r2))
      => (sreqs[r2].fromCache /\ ~sreqs[r2].didRead)

\* C6, amended: of two successive requests with no modification of the file
\* between them, when the first was answered 200 the second is answered from
\* the cache with the same body and without a read, so that from an empty
\* cache the two cause exactly one read; when the modification time was
\* raised between them, the second reads the file again and a 200 carries
\* the stats of the content read, which is the file's content as long as it
\* is not modified again.
C6_CacheOnUnmodifiedFile ==
  \A r1, r2 \in DOMAIN sreqs :
    (Successive(r1, r2) /\ StatOk(r2)) =>
      /\ (Unmodified(r1, r2) /\ sreqs[r1].status = 200) =>
            /\ sreqs[r2].fromCache
            /\ ~sreqs[r2].didRead
            /\ sreqs[r2].status = 200
            /\ sreqs[r2].body = sreqs[r1].body
            /\ sreqs[r1].cacheSeen = NoStats => sreqs[r1].didRead
      /\ (StatOk(r1) /\ sreqs[r2].mtime > sreqs[r1].mtime) => Recomputed(r2)

\* First request computes, the second is answered from the cache, the file
\* is modified, the third computes another result.
C6_Witness ==
  /\ DOMAIN sreqs = 1..3
  /\ Successive(1, 2) /\ Unmodified(1, 2)
  /\ sreqs[1].status = 200 /\ sreqs[1].didRead
  /\ sreqs[2].status = 200 /\ sreqs[2].fromCache /\ ~sreqs[2].didRead
  /\ Successive(2, 3) /\ sreqs[3].mtime > sreqs[2].mtime
  /\ sreqs[3].status = 200 /\ sreqs[3].didRead
  /\ sreqs[3].body # sreqs[2].body

\* C7: a request is answered from the cache only when a cached value exists
\* and the modification time it observed is at most the recorded one; a
\* request that observed a newer time than the recorded one (or found none
\* recorded) reads the file and answers what it computed from the read.
C7_CacheOnlyWhileFresh ==
  \A r \in DOMAIN sreqs :
    /\ sreqs[r].fromCache =>
          /\ sreqs[r].cacheSeen # NoStats
          /\ sreqs[r].recordedSeen # NoTime
          /\ sreqs[r].mtime <= sreqs[r].recordedSeen
          /\ sreqs[r].body = sreqs[r].cacheSeen
    /\ (StatOk(r) /\ (sreqs[r].recordedSeen = NoTime
                        \/ sreqs[r].mtime > sreqs[r].recordedSeen))
          => Recomputed(r)

\* One request answered from the cache, another one that found the recorded
\* time older than the file's and recomputed.
C7_Witness ==
  \E r1, r2 \in DOMAIN sreqs :
    /\ sreqs[r1].fromCache /\ sreqs[r1].status = 200
    /\ sreqs[r2].recordedSeen # NoTime
    /\ sreqs[r2].mtime > sreqs[r2].recordedSeen
    /\ sreqs[r2].status = 200 /\ sreqs[r2].didRead
    /\ sreqs[r2].body # sreqs[r2].cacheSeen

(***************************************************************************)
(* Properties of the client (SpecClient).                                  *)
(***************************************************************************)
\* The slot of a request: the provider's one for its list operations, the
\* category fetch, the one of an ItemDetail page.
Slot(r) ==
  IF creqs[r].op \in ListOps THEN [of |-> "list", view |-> 0]
  ELSE IF creqs[r].op = "fetchCategories" THEN [of |-> "categories", view |-> 0]
  ELSE [of |-> "item", view |-> creqs[r].view]

\* In flight and not cancelled.
Live(r) == creqs[r].pc # "done" /\ ~creqs[r].aborted

\* C9: of the requests of the provider's operations (list fetch, search
\* fetch, category fetch, load more, fetch all), at most one per slot is in
\* flight and not cancelled.
C9_OneLiveRequestPerSlot ==
  \A r1, r2 \in DOMAIN creqs :
    (/\ Live(r1) /\ Live(r2)
     /\ creqs[r1].op \in ListOps \cup {"fetchCategories"}
     /\ Slot(r1) = Slot(r2))
      => r1 = r2

\* The part of C9 that the code keeps: the list operations, which share the
\* provider's controller.
ListSlotOneLiveRequest ==
  \A r1, r2 \in DOMAIN creqs :
    (/\ Live(r1) /\ Live(r2)
     /\ creqs[r1].op \in ListOps /\ creqs[r2].op \in ListOps)
      => r1 = r2

\* C10: a step that continues a request whose page has been torn down
\* changes none of items, pagination, filters, loading, categories and the
\* detail item, and does not navigate.
C10_NoUpdateAfterTeardown ==
  [][\A r \in DOMAIN creqs :
       (/\ creqs[r].pc # "done"
        /\ creqs'[r].pc # creqs[r].pc
        /\ ~views[creqs[r].view].isMounted)
         => UNCHANGED shown]_vars

\* A result has arrived for a page that was torn down.
C10_Witness ==
  /\ lateResult
  /\ \E v \in DOMAIN views : ~views[v].isMounted

(***************************************************************************)
(* Properties of the search form (SpecDebounce).                           *)
(***************************************************************************)
\* The step is the firing of the debounce timer.
Fires == timer # NoTimer /\ timer' = NoTimer /\ views' = views

\* The step issues a request.
Issues == Len(creqs') > Len(creqs)

\* C11, as stated: the last value of a burst of text changes becomes the
\* debounced value when its timer fires, and produces a request.
C11_LastValueRequested ==
  [][(Fires /\ burst >= 1) => (debouncedSearch' = searchForm.q /\ Issues)]_vars

\* C11: in a page instance the debounced value changes only to the text that has been in the
\* input for 300 ms without a change, so a text replaced sooner never
\* becomes the debounced value; every request of the search effect carries
\* the debounced value; when the timer fires, the last text of the burst
\* becomes the debounced value, and a request is produced exactly when that
\* text differs from the debounced value in force.
C11_Debounce ==
  [][/\ (views' = views /\ debouncedSearch' # debouncedSearch)
          => (debouncedSearch' = searchForm.q /\ sinceChange = Delay)
     /\ Issues => lastParams'.search = debouncedSearch'
     /\ Fires => /\ debouncedSearch' = searchForm.q
                 /\ sinceChange = Delay
                 /\ Issues <=> (debouncedSearch' # debouncedSearch)]_vars

\* A burst of at least two changes has ended on "ab"; its timer has fired
\* and the request carrying "ab" is out.
C11_Witness ==
  /\ Mounted("items")
  /\ timer = NoTimer /\ burst = 2
  /\ searchForm.q = "ab" /\ debouncedSearch = "ab"
  /\ lastParams.search = "ab"
  /\ Len(creqs) > 3

(***************************************************************************)
(* Properties of the client's failure handling (SpecClient).               *)
(***************************************************************************)
\* The step ends list request r, which was not cancelled, in a failure: the
\* fetch is rejected (pc "fetch") or the body of an error response has been
\* read (pc "error").
ListRequestFails(r) ==
  /\ creqs[r].op \in ListOps
  /\ ~creqs[r].aborted
  /\ creqs[r].pc \in {"fetch", "error"}
  /\ creqs'[r].pc = "done"

\* C12: a list request that fails for a reason other than cancellation, a
\* network failure or an error response of the server, leaves items,
\* pagination and filters as they were before it.
C12_FailureKeepsState ==
  [][\A r \in DOMAIN creqs :
       ListRequestFails(r) => UNCHANGED <<items, pagination, filters>>]_vars

\* The step ends request r, which was cancelled.
EndsCancelled(r) ==
  /\ creqs[r].aborted
  /\ creqs[r].pc # "done"
  /\ creqs'[r].pc = "done"

\* C13: a request that ends by cancellation changes none of items,
\* pagination and filters, writes nothing to console.error, and reaches the
\* view neither as an item nor as an error (no navigation away from the
\* detail page).
C13_CancellationIsSilent ==
  [][\A r \in DOMAIN creqs :
       EndsCancelled(r)
       => /\ UNCHANGED <<items, pagination, filters>>
          /\ UNCHANGED <<detailItem, navigations>>
          /\ ~logged']_vars

\* Items are shown and a list request is in flight, yet loading is off: every
\* list request but the newest is cancelled when the next is issued, so one
\* that was cancelled has ended, and the items shown are still there.
C13_Witness ==
  /\ Mounted("items")
  /\ items # <<>>
  /\ ~loading /\ ~logged
  /\ \E r \in DOMAIN creqs :
       creqs[r].op \in ListOps /\ creqs[r].pc # "done" /\ ~creqs[r].aborted

(***************************************************************************)
(* Properties of the failures of the stats endpoint (SpecStats).           *)
(***************************************************************************)
\* C14: GET /api/stats is answered 500 when the backing file cannot be
\* stat'ed or read and when its content does not parse, and the cached value
\* and the recorded modification time are then left as they were.
C14_StatsFailureAnswered500 ==
  [][\A r \in DOMAIN sreqs' :
       LET failed == IF r \in DOMAIN sreqs
                     THEN /\ sreqs[r].pc = "read" /\ sreqs'[r].didRead
                          /\ (~statsFile.ok \/ sreqs'[r].message = "read failed")
                     ELSE sreqs'[r].message = "stat failed"
       IN failed => /\ sreqs'[r].pc = "done"
                    /\ sreqs'[r].status = 500
                    /\ UNCHANGED <<statsCache, lastModified>>]_vars

(***************************************************************************)
(* Properties of the failures of the items endpoints (Spec).               *)
(***************************************************************************)
\* C15: a list, search, categories or get-by-id request whose read of the
\* backing file fails (the file cannot be read or does not parse) is
\* answered 500; a create that fails at that step is answered 500, writes
\* nothing then or later and leaves the file as it is; a create whose write
\* fails is answered 500 with the message of the write error.
C15_ItemsFailures ==
  [][/\ (resp = NoResp /\ resp' # NoResp /\ resp'.message = "read failed")
          => resp'.status = 500
     /\ \A r \in DOMAIN posts :
          /\ (posts[r].pc = "read" /\ posts'[r].pc = "done")
               => /\ posts'[r].status = 500
                  /\ UNCHANGED <<itemsFile, nWrites>>
          /\ (posts[r].pc = "write" /\ posts'[r].pc = "done"
                 /\ posts'[r].status # 201)
               => /\ posts'[r].status = 500
                  /\ posts'[r].message = "Write permission denied"
          /\ posts[r].pc = "done" => posts'[r] = posts[r]]_vars

\* One create has failed at its read and one at its write, the file is the
\* one the server started with, and a search has just been answered 500.
C15_Witness ==
  /\ \E r \in DOMAIN posts :
       posts[r].pc = "done" /\ posts[r].message = "read failed"
  /\ \E r \in DOMAIN posts :
       posts[r].pc = "done" /\ posts[r].message = "Write permission denied"
  /\ itemsFile = Seed /\ nWrites = 0
  /\ resp.route = "search" /\ resp.status = 500

(***************************************************************************)
(* Properties of GET /api/items/:id (Spec).                                *)
(***************************************************************************)
\* The step answers a GET /api/items/:id whose read of the file worked.
AnswersItem ==
  resp = NoResp /\ resp'.route = "item" /\ resp'.message # "read failed"

\* The positions of the items whose id is the integer the segment spells.
WithId(segment) ==
  {i \in 1..Len(itemsFile) : itemsFile[i].id = parseInt(segment)}

Passing == {i \in 1..Len(itemsFile) : PassesList(itemsFile[i], resp.query)}

\* The response carries the whole filtered set: the first page of the
\* default size.
WholeSet == resp.query.limit = Undef /\ resp.query.page = Undef

\* C17: with no category filter, the answer to a list request with a
\* non-blank q holds exactly the items whose name or category, case-folded,
\* contains the trimmed case-folded q; with a blank or absent q it holds
\* every item.
C17_TextFilter ==
  (resp.route = "list" /\ resp.status = 200 /\ resp.query.category = Undef)
  => LET blank == resp.query.q = Undef \/ trim(resp.query.q.s) = <<>>
     IN /\ blank => Passing = 1..Len(itemsFile)
        /\ resp.pagination.totalItems = Num(Cardinality(Passing))
        /\ \A k \in 1..Len(resp.data) :
             \E i \in Passing : resp.data[k] = itemsFile[i]
        /\ WholeSet => \A i \in Passing :
                         \E k \in 1..Len(resp.data) : resp.data[k] = itemsFile[i]

\* q = "ca" has selected an item by its category alone and left another out.
C17_Witness ==
  /\ resp.route = "list" /\ resp.status = 200 /\ WholeSet
  /\ resp.query.category = Undef
  /\ resp.query.q = Str(<<"c", "a">>)
  /\ Len(itemsFile) = 3
  /\ Len(resp.data) = 1
  /\ resp.data[1].category = Str(<<"c", "a">>)

\* C18: the answer to a list or search request with a non-blank category
\* holds only items whose case-folded category equals the trimmed,
\* case-folded parameter, and (no price bound being given) every such item
\* that passes the text filter.
C18_CategoryFilter ==
  (/\ resp.route \in {"list", "search"} /\ resp.status = 200
   /\ resp.query.category # Undef /\ trim(resp.query.category.s) # <<>>)
  => LET wanted == trim(toLowerCase(resp.query.category.s))
     IN /\ \A k \in 1..Len(resp.data) :
             /\ IsStr(resp.data[k].category)
             /\ toLowerCase(resp.data[k].category.s) = wanted
        /\ (resp.query.minPrice = Undef /\ resp.query.maxPrice = Undef)
             => /\ resp.pagination.totalItems = Num(Cardinality(Passing))
                /\ WholeSet => \A i \in Passing :
                                 \E k \in 1..Len(resp.data) :
                                    resp.data[k] = itemsFile[i]

\* A search by category "C " has kept the items of the categories "C" and
\* "c" and left out the one of category "ca".
C18_Witness ==
  /\ resp.route = "search" /\ resp.status = 200 /\ WholeSet
  /\ resp.query.category = Str(<<"C", " ">>)
  /\ resp.query.q = Undef
  /\ resp.query.minPrice = Undef /\ resp.query.maxPrice = Undef
  /\ Len(itemsFile) = 3
  /\ Len(resp.data) = 2

\* The items of the answer that carry a number as price, a string as name.
Priced == {k \in 1..Len(resp.data) : IsNum(resp.data[k].price)}

Named == {k \in 1..Len(resp.data) : IsStr(resp.data[k].name)}

\* C19: the answer to a list request with sortBy=price and sortOrder=desc
\* is in non-increasing order of price, and the answer to one with
\* sortBy=name in ascending order is in non-decreasing order of the
\* case-folded name, whatever the collection.
C19_SortedOutput ==
  (resp.route = "list" /\ resp.status = 200)
  => /\ (/\ resp.query.sortBy = Str(<<"p", "r", "i", "c", "e">>)
         /\ resp.query.sortOrder = Str(<<"d", "e", "s", "c">>))
          => \A k, l \in Priced :
               k < l => resp.data[k].price.n >= resp.data[l].price.n
     /\ (/\ resp.query.sortBy = Str(<<"n", "a", "m", "e">>)
         /\ resp.query.sortOrder = Undef)
          => \A k, l \in Named :
               k < l => ~StrLess(toLowerCase(resp.data[l].name.s),
                                 toLowerCase(resp.data[k].name.s))

\* The list request answered carried a limit that parses to 0 or to no
\* number.
NoRoomLimit ==
  /\ resp.route = "list"
  /\ resp.query.limit # Undef
  /\ parseInt(resp.query.limit) \in {Num(0), NaN}

\* The request carried nothing but a limit and a page.
OnlyPaging ==
  /\ resp.query.q = Undef
  /\ resp.query.category = Undef
  /\ resp.query.sortBy = Undef
  /\ resp.query.sortOrder = Undef

\* C20: a list request whose limit parses to 0 or does not parse as a
\* number is answered 200 with empty data, whatever the collection and the
\* page; with limit=0 the itemsPerPage of the answer is 0.  (With a filter
\* or a sort besides, the request is answered with empty data whenever it
\* is answered.)
C20_NoRoomLimit ==
  NoRoomLimit
  => /\ OnlyPaging => resp.status = 200
     /\ resp.status = 200 => resp.data = <<>>
     /\ (resp.status = 200 /\ parseInt(resp.query.limit) = Num(0))
          => resp.pagination.itemsPerPage = Num(0)

C20_Witness ==
  /\ NoRoomLimit
  /\ OnlyPaging
  /\ resp.query.limit = Str(<<"0">>)
  /\ resp.query.page = Str(<<"2">>)
  /\ Len(itemsFile) = MaxLen
  /\ resp.status = 200
  /\ resp.data = <<>>
  /\ resp.pagination.itemsPerPage = Num(0)

\* The list request answered carried a negative limit and asked for page 1.
NegativeLimit ==
  /\ resp.route = "list"
  /\ resp.query.limit # Undef
  /\ IsNum(parseInt(resp.query.limit)) /\ parseInt(resp.query.limit).n < 0
  /\ resp.query.page = Undef

\* The filtered, sorted sequence of the request: the data of the answer to
\* the same request for page 1 with the default limit, which exceeds every
\* collection.
WholeAnswer ==
  ListItems(itemsFile, [resp.query EXCEPT !.limit = Undef, !.page = Undef]).data

\* C21: a list request with limit=-k (k >= 1) for page 1 is not rejected:
\* it is answered 200, and its data is the filtered, sorted sequence without
\* its last k elements.  (With a filter or a sort on name the answer is 200
\* whenever the filter and the sort themselves do not fail.)
C21_NegativeLimit ==
  NegativeLimit
  => LET k == 0 - parseInt(resp.query.limit).n
     IN /\ OnlyPaging => resp.status = 200
        /\ resp.status = 200
             => /\ resp.data = SubSeq(WholeAnswer, 1, Max(Len(WholeAnswer) - k, 0))
                /\ resp.pagination.itemsPerPage = Num(0 - k)
        /\ resp.status # 200 => resp.status = 500 /\ resp.message = "TypeError"

C21_Witness ==
  /\ NegativeLimit
  /\ resp.status = 200
  /\ resp.query.limit = Str(<<"-", "2">>)
  /\ resp.query.sortBy = Str(<<"p", "r", "i", "c", "e">>)
  /\ Len(WholeAnswer) = MaxLen
  /\ resp.data = <<WholeAnswer[1]>>

\* A category as the JSON of a response shows it: a missing one reads null.
JsonCategory(category) == IF category = Undef THEN Null ELSE category

\* C22: the category listing holds every category value of the collection
\* exactly once, upper and lower case kept apart, and no other value, and
\* its strings are in ascending lexicographic order.
C22_Categories ==
  (resp.route = "categories" /\ resp.status = 200)
  => LET found == resp.categories
     IN /\ {found[i] : i \in 1..Len(found)}
             = {JsonCategory(itemsFile[i].category) : i \in 1..Len(itemsFile)}
        /\ \A i, j \in 1..Len(found) : i # j => found[i] # found[j]
        /\ \A i, j \in 1..Len(found) :
             (i < j /\ IsStr(found[i]) /\ IsStr(found[j]))
               => StrLess(found[i].s, found[j].s)

\* A search answered in one page that holds everything it found.
WholeSearch ==
  /\ resp.route = "search" /\ resp.status = 200
  /\ resp.query.limit = Undef /\ resp.query.page = Undef

\* The bound was supplied and parses as a number.
Bounds(v) == v # Undef /\ IsNum(parseFloat(v))

\* The items that pass the text and category filters of the search.
Unbounded ==
  searchItems(itemsFile, Default(resp.query.q, Str(<<>>)),
              Default(resp.query.category, Str(<<>>)), Str(<<>>), Str(<<>>)).arr

\* The price of the item lies within the bounds supplied, bounds included.
WithinBounds(item) ==
  /\ Bounds(resp.query.minPrice) => item.price.n >= parseFloat(resp.query.minPrice).n
  /\ Bounds(resp.query.maxPrice) => item.price.n <= parseFloat(resp.query.maxPrice).n

\* C23: on the advanced search, of the items that pass the other filters one
\* with a price is dropped exactly when a supplied, parsable minPrice is
\* greater than its price or a supplied, parsable maxPrice is less than it
\* (a price equal to a bound stays); a bound that is absent or does not
\* parse removes no item.
C23_PriceRange ==
  WholeSearch
  => LET found == {resp.data[i] : i \in 1..Len(resp.data)}
         base == {Unbounded[i] : i \in 1..Len(Unbounded)}
     IN /\ found \subseteq base
        /\ \A item \in base :
             IsNum(item.price) => (item \in found <=> WithinBounds(item))
        /\ (~Bounds(resp.query.minPrice) /\ ~Bounds(resp.query.maxPrice))
             => found = base /\ Len(resp.data) = Len(Unbounded)

\* A lower bound of 2 keeps the item priced 2 and drops the item priced 1.
C23_Witness ==
  /\ WholeSearch
  /\ resp.query.minPrice = Str(<<"2">>)
  /\ resp.query.maxPrice = Undef
  /\ \E i \in 1..Len(Unbounded) : Unbounded[i].price = Num(1)
  /\ \E i \in 1..Len(resp.data) : resp.data[i].price = Num(2)
  /\ Len(resp.data) < Len(Unbounded)

\* A search answered that carried no price bound.
SearchWithoutBounds ==
  /\ resp.route = "search"
  /\ resp.message # "read failed"
  /\ resp.query.minPrice = Undef /\ resp.query.maxPrice = Undef

\* C24: without minPrice and maxPrice the search endpoint answers as the
\* list endpoint does for the same collection and the same q, category,
\* sortBy, sortOrder, page and limit: the same status, the same data and the
\* same pagination.
C24_SearchAsList ==
  SearchWithoutBounds
  => LET listed == ListItems(itemsFile, resp.query)
     IN /\ listed.status = resp.status
        /\ listed.data = resp.data
        /\ listed.pagination = resp.pagination

\* A search with a text and a category that finds two of three items.
C24_Witness ==
  /\ SearchWithoutBounds
  /\ resp.status = 200
  /\ resp.query.q = Str(<<"a", "B", " ">>)
  /\ resp.query.category = Str(<<"C", " ">>)
  /\ resp.query.limit = Undef /\ resp.query.page = Undef
  /\ Len(itemsFile) = MaxLen
  /\ Len(resp.data) = 2
  /\ ListItems(itemsFile, resp.query).data = resp.data

\* Every modification of the stats file so far has raised its time.
AlwaysRaised == mtime' = version' + 1

\* The stats requests that this step answers from the cache.
AnswersFromCache ==
  {r \in DOMAIN sreqs' : r \notin DOMAIN sreqs /\ sreqs'[r].fromCache}

\* C25: as long as every modification raises the modification time, in any
\* interleaving of stats requests and modifications a response from the
\* cache carries the stats of the content the file has when the request
\* stats it; and whichever of racing requests writes the cache last, the
\* time recorded with the cached value is never later than the time of the
\* content it was computed from: it is at most the file's time, and when it
\* is the file's time the cached value is the stats of the file's content.
C25_CacheUnderRaces ==
  [][AlwaysRaised
     => /\ \A r \in AnswersFromCache :
             /\ statsFile.ok
             /\ sreqs'[r].body = calculatedStats(statsFile.items)
        /\ lastModified' <= mtime'
        /\ (statsCache' # NoStats /\ lastModified' = mtime')
             => statsFile'.ok /\ statsCache' = calculatedStats(statsFile'.items)]_vars

\* Two requests race across a modification, the one that saw the older time
\* reads first and the other writes the cache last; a third is answered
\* from the cache.
C25_Witness ==
  /\ mtime = version + 1 /\ version = 1
  /\ DOMAIN sreqs = 1..3
  /\ sreqs[1].mtime = 1 /\ sreqs[2].mtime = 2
  /\ sreqs[1].status = 200 /\ sreqs[1].didRead /\ sreqs[1].readVer = 1
  /\ sreqs[2].status = 200 /\ sreqs[2].didRead /\ ~sreqs[2].alone
  /\ sreqs[3].fromCache /\ sreqs[3].status = 200
  /\ sreqs[3].body = calculatedStats(statsFile.items)
  /\ statsFile.items # <<>>
  /\ lastModified = 2

\* The list request answered carried a text, a category or a sort on name,
\* and the file was read.
FiltersOrSortsOnName ==
  /\ resp.route = "list"
  /\ resp.message # "read failed"
  /\ \/ resp.query.q # Undef /\ ~Blank(resp.query.q)
     \/ resp.query.category # Undef /\ ~Blank(resp.query.category)
     \/ resp.query.sortBy = Str(<<"n", "a", "m", "e">>)

\* C26: whatever items the unvalidated creation has stored, with a null or
\* missing name or category among them, a list request with a non-blank q
\* or category or with sortBy=name is answered 200 with items of the
\* collection, and does not fail.
C26_NullFieldsAnswered ==
  FiltersOrSortsOnName
  => /\ resp.status = 200
     /\ \A k \in 1..Len(resp.data) :
          \E i \in 1..Len(itemsFile) : itemsFile[i] = resp.data[k]

\* The stats requests that this step answers 200, once a creation has been
\* answered 201 and no creation is under way.
AnswersStats ==
  {r \in DOMAIN sreqs' :
     /\ sreqs'[r].pc = "done" /\ sreqs'[r].status = 200
     /\ (r \notin DOMAIN sreqs \/ sreqs[r].pc # "done")
     /\ \E p \in DOMAIN posts : posts[p].status = 201
     /\ \A p \in DOMAIN posts : posts[p].pc = "done"}

\* C27: the stats endpoint and the items endpoints work on one file: a
\* stats request made after a creation was answered 201 carries as total
\* the number of items the list endpoint now returns.
C27_OneBackingFile ==
  [][\A r \in AnswersStats :
       sreqs'[r].body.total = Len(ListItems(itemsFile, NoQuery).data)]_vars

\* C28: while a list request that was not cancelled is in flight and its
\* page is mounted, loading is true; the end of a request that was
\* superseded and cancelled does not reset loading while its successor is
\* pending.
C28_LoadingWhileInFlight ==
  (\E r \in DOMAIN creqs :
      /\ creqs[r].op \in ListOps
      /\ Live(r)
      /\ views[creqs[r].view].isMounted)
  => loading

\* The step ends the list request r.
EndsList(r) ==
  /\ creqs[r].op \in ListOps
  /\ creqs[r].pc # "done"
  /\ creqs'[r].pc = "done"

\* The list request r holds the provider's slot: no list request has been
\* issued after it, each one putting its own controller into the slot.
HoldsSlot(r) ==
  /\ abortControllerRef = r
  /\ \A k \in DOMAIN creqs : k > r => creqs[k].op \notin ListOps

\* C29: a step of a list request changes items, pagination or filters, or
\* clears the slot, only when no list request was issued after it; and when
\* the request issued last succeeds with the Items page mounted, the items
\* shown are (for loadMoreItems: end with) the ones it brought, which no
\* later step of an older request replaces.
C29_LatestRequestWins ==
  [][\A r \in DOMAIN creqs :
       EndsList(r)
       => /\ (~UNCHANGED <<items, pagination, filters>> \/ abortControllerRef' # abortControllerRef)
             => HoldsSlot(r) /\ abortControllerRef' = 0
          /\ (/\ HoldsSlot(r) /\ creqs[r].pc = "json" /\ abortControllerRef' = 0
              /\ Mounted("items") /\ creqs[r].view = Current)
             => /\ items' # <<>> /\ items'[Len(items')] = r
                /\ filters' = r]_vars

\* Every request has settled, three of the list requests were superseded,
\* and the items shown on the mounted page are those of the last one.
C29_Witness ==
  /\ Mounted("items")
  /\ Len(creqs) >= 5
  /\ \A r \in DOMAIN creqs : creqs[r].pc = "done"
  /\ abortControllerRef = 0
  /\ items = <<Len(creqs)>>
  /\ filters = Len(creqs)

\* A list request answered with a positive limit.
Paged ==
  /\ resp.route = "list" /\ resp.status = 200
  /\ IsNum(resp.pagination.itemsPerPage) /\ resp.pagination.itemsPerPage.n > 0

\* The data of pages 1..n of the request answered, one after the other.
RECURSIVE PagesUpTo(_)
PagesUpTo(n) ==
  IF n = 0 THEN <<>>
  ELSE PagesUpTo(n - 1)
         \o ListItems(itemsFile, [resp.query EXCEPT !.page = Str(Digits(n))]).data

AllPages == PagesUpTo(resp.pagination.totalPages.n)

\* The sort key of an item under the request answered.
SortKey(item) ==
  IF resp.query.sortBy = Undef THEN item.id
  ELSE IF resp.query.sortBy = Str(<<"n", "a", "m", "e">>) THEN item.name
  ELSE item.price

\* Key a comes strictly before key b in ascending order; keys of different
\* types are not compared.
KeyBefore(a, b) ==
  \/ IsNum(a) /\ IsNum(b) /\ a.n < b.n
  \/ IsStr(a) /\ IsStr(b) /\ StrLess(toLowerCase(a.s), toLowerCase(b.s))

SameKey(a, b) ==
  \/ IsNum(a) /\ IsNum(b) /\ a.n = b.n
  \/ IsStr(a) /\ IsStr(b) /\ toLowerCase(a.s) = toLowerCase(b.s)

\* The position of an item in the collection.
PlaceOf(item) == CHOOSE i \in 1..Len(itemsFile) : itemsFile[i] = item

\* The pages 1..totalPages, one after the other, hold every filtered item
\* exactly once, the page answered is its part of them, and items that tie
\* on the sort key keep the order of the collection.
PagesPartition ==
  Paged
  => /\ Len(AllPages) = FilteredCount
     /\ \A k, l \in 1..Len(AllPages) : k # l => AllPages[k] # AllPages[l]
     /\ \A k \in 1..Len(AllPages) :
          \E i \in 1..Len(itemsFile) :
            itemsFile[i] = AllPages[k] /\ PassesList(itemsFile[i], resp.query)
     /\ AllPages = WholeAnswer
     /\ \A k, l \in 1..Len(AllPages) :
          (k < l /\ SameKey(SortKey(AllPages[k]), SortKey(AllPages[l])))
            => PlaceOf(AllPages[k]) < PlaceOf(AllPages[l])

\* C30: for a collection, filters, sortBy, sortOrder and a limit > 0, the
\* data of pages 1..totalPages one after the other are the filtered
\* collection in sorted order, every filtered item exactly once, items that
\* tie on the sort key in the order of the collection.
C30_PagesInSortedOrder ==
  /\ PagesPartition
  /\ Paged
     => \A k, l \in 1..Len(AllPages) :
          k < l
          => IF resp.query.sortOrder = Str(<<"d", "e", "s", "c">>)
               THEN ~KeyBefore(SortKey(AllPages[k]), SortKey(AllPages[l]))
               ELSE ~KeyBefore(SortKey(AllPages[l]), SortKey(AllPages[k]))

====
